---- MODULE Spec2Model ----
(***************************************************************************)
(* Event-bus coordination layer of the distributed agenda: the gateway's   *)
(* create_event conflict check, the correlation-id request/reply waiters,  *)
(* the group-event fan-out and the users-service handler dispatch.         *)
(*                                                                         *)
(* Each subsystem has its own specification over the shared variables; the *)
(* variables of the other subsystems stay at their initial value.          *)
(***************************************************************************)
EXTENDS Integers, Sequences, FiniteSets, TLC

(***************************************************************************)
(* Bounds of the model.                                                    *)
(***************************************************************************)
MaxTime == 2
MaxStored == 2
MaxRequests == 2
MaxMsgs == 2
MaxMembers == 3
MaxRegistrations == 3
MaxDispatch == 2
MaxOutages == 1
MaxPublishes == 2
MaxStarts == 2
MaxUserEvents == 2

(***************************************************************************)
(* Datetimes.  A datetime is a wall-clock value with an optional UTC       *)
(* offset; an ISO string is a wall-clock value with a suffix.              *)
(***************************************************************************)
Times == 0..MaxTime
TzOffsets == {0, 1}
Naive(w) == [wall |-> w, aware |-> FALSE, off |-> 0]
Aware(w, o) == [wall |-> w, aware |-> TRUE, off |-> o]
\* the tzinfo values a request may carry: none, or one of TzOffsets
TzInfos == {[aware |-> FALSE, off |-> 0]} \cup
           {[aware |-> TRUE, off |-> o] : o \in TzOffsets}
MkDateTime(w, z) == [wall |-> w, aware |-> z.aware, off |-> z.off]
IsoSuffixes == {"", "Z"}
IsoStrings == [wall : Times, suffix : IsoSuffixes]

\* str.replace('Z', '+00:00') followed by datetime.fromisoformat
FromIsoformat(s) ==
    IF s.suffix = "Z" THEN Aware(s.wall, 0) ELSE Naive(s.wall)

\* dt.replace(tzinfo=timezone.utc) if dt.tzinfo is None else dt
AsUtc(dt) ==
    IF ~dt.aware THEN Aware(dt.wall, 0) ELSE dt

\* the instant an aware datetime denotes; aware datetimes compare by instant
Instant(dt) == dt.wall - dt.off

\* dt.replace(tzinfo=timezone.utc): the offset is overwritten, not converted
ReplaceUtc(dt) == Aware(dt.wall, 0)

(***************************************************************************)
(* State.                                                                  *)
(***************************************************************************)
VARIABLES
    \* ---- create_event (api_gateway) ----
    store,            \* events the Events Service holds for the user
    ce_pc,            \* position of the create_event request
    event_data,       \* the request body (start_time, end_time)
    events_response,  \* answer of GET /api/events?user_id=...
    conflicting_events, \* ids of the events the check flagged, in order
    ce_result,        \* what the endpoint answered
    publish_calls     \* event_service.publish_event calls on events_events

ceVars == <<store, ce_pc, event_data, events_response, conflicting_events,
            ce_result, publish_calls>>

VARIABLES
    \* ---- request/reply: list_user_groups and wait_for_response ----
    rr_api,           \* the waiter in use: "list_user_groups", "wait_for_response"
    rr_pc,            \* position of the call
    correlation_id,   \* the correlation id generated for the current request
    subscribers,      \* subscriptions the broker holds on response channels
    thread_state,     \* the subscriber thread started by wait_for_response
    inbox,            \* messages delivered to the current subscriber, unread
    arrived,          \* every message delivered to the current subscriber
    response,         \* response_received / the nonlocal response
    event_set,        \* the asyncio.Event of wait_for_response
    clock,            \* seconds since start_time / since the wait began
    poll_start,       \* clock value when the current get_message began
    returned,         \* what the call returned to its caller
    rr_outcome,       \* the exit path the call took
    groups_channel,   \* requests published on channel 'groups'
    msg_count         \* responses published so far

rrVars == <<rr_api, rr_pc, correlation_id, subscribers, thread_state, inbox,
            arrived, response, event_set, clock, poll_start, returned,
            rr_outcome, groups_channel, msg_count>>

VARIABLES
    \* ---- create_group_event (api_gateway) ----
    ge_pc,            \* position of the create_group_event request
    group_event_data, \* the request body (start_time, end_time)
    group_members,    \* the member ids of the group, once obtained
    members_bound,    \* whether the name group_members was ever assigned
    member_idx,       \* index of the member the current loop is at
    member_events,    \* events_data.get('events') of the last pre-check lookup
    conflicting_members, \* members the pre-check flagged, with the event id
    attempts,         \* member ids a creation request was issued for, in order
    created_events,   \* [member_id, event_id] of the successful creations
    failed_members,   \* [member_id, error] of the failed creations
    registered,       \* event ids registered with the group
    ge_result         \* status answered, or "raised"

geVars == <<ge_pc, group_event_data, group_members, members_bound, member_idx,
            member_events, conflicting_members, attempts, created_events,
            failed_members, registered, ge_result>>

VARIABLES
    \* ---- users_service RedisService: handler registry and dispatch ----
    handlers,         \* self.handlers: event type -> list of handlers
    dp_pc,            \* position of _process_message
    dp_message,       \* the message being processed
    dp_idx,           \* index of the handler the loop is at
    invoked,          \* handlers invoked for the message, in order
    handler_errors,   \* handler exceptions caught and logged for the message
    dp_propagated,    \* whether an exception left _process_message
    dp_count          \* messages taken so far

dpVars == <<handlers, dp_pc, dp_message, dp_idx, invoked, handler_errors,
            dp_propagated, dp_count>>

VARIABLES
    \* ---- users_service RedisService: the connection and its callers ----
    broker,           \* whether the broker can be reached: "up" or "down"
    outages,          \* how often the broker went down so far
    restored,         \* the broker came back and no publish_event ended since
    client,           \* self.client: "none", or the state of its connection
    pubsub,           \* self.pubsub: "none", or the state of its subscription
    same_conn,        \* self.pubsub was made from the object now in self.client
    cn_pc,            \* position of each caller
    cn_stack,         \* where each caller's current call returns to
    cn_ret,           \* the value the last call returned to each caller
    attempt,          \* loop variable of each caller's _connect
    waits,            \* seconds slept by each caller's current _connect
    pe_calls,         \* publish_event calls made so far
    pe_connects,      \* _connect invocations of the current publish_event
    pe_subscribed,    \* the channel published to has a subscriber
    pe_first,         \* the call began after a restoration, broker up since
    pe_result         \* what publish_event returned: "none", "True", "False"

cnVars == <<broker, outages, restored, client, pubsub, same_conn, cn_pc,
            cn_stack, cn_ret, attempt, waits, pe_calls, pe_connects,
            pe_subscribed, pe_first, pe_result>>

VARIABLES
    \* ---- api_gateway: message bus client, response store, health ----
    gw_broker,        \* whether the gateway's broker can be reached
    gw_client,        \* redis_service.client: "none" or "client"
    gw_handed,        \* envelopes the broker received from the gateway
    gw_call,          \* the last publishing endpoint call and its answer
    gw_health,        \* the last health answer and the connectivity then
    event_responses,  \* event_responses: correlation id -> stored response
    gw_status         \* the last answer of get_event_status

gwVars == <<gw_broker, gw_client, gw_handed, gw_call, gw_health,
            event_responses, gw_status>>

VARIABLES
    \* ---- users_service main.py: the listener task and its flag; the ----
    \* ---- gateway's response listener thread; shutdown of both        ----
    events_listener_running,  \* service_state["events_listener_running"]
    events_listener_task,     \* service_state["events_listener_task"], 0: None
    tasks,                    \* state of every events_listener task created
    lc_answer,                \* status answered by the last endpoint call
    us_shutdown,              \* shutdown_event of the users service
    gl_thread,                \* the gateway's response listener thread
    gl_shutdown,              \* the gateway's shutdown_event has completed
    gl_polled_after           \* the thread took a message after shutdown

lcVars == <<events_listener_running, events_listener_task, tasks, lc_answer,
            us_shutdown, gl_thread, gl_shutdown, gl_polled_after>>

VARIABLES
    \* ---- users_service UserEventHandler ----
    uh_pc,            \* position of the handler
    uh_event,         \* the request event received and the path it takes
    uh_handler,       \* the handler _process_message found for its type
    uh_responses,     \* responses published on users_events_response
    uh_raised,        \* an exception left the handler
    uh_count          \* request events received so far

uhVars == <<uh_pc, uh_event, uh_handler, uh_responses, uh_raised, uh_count>>

VARIABLES
    \* ---- two create_event requests of one user in flight together ----
    cc_store,         \* events the Events Service holds for the user
    cc_pc,            \* position of each request
    cc_data,          \* the body of each request
    cc_response,      \* the lookup answer each request got
    cc_before,        \* envelopes already published when it was looked up
    cc_result,        \* what each request answered
    cc_publish_calls  \* publish_event calls on events_events, in order

ccVars == <<cc_store, cc_pc, cc_data, cc_response, cc_before, cc_result,
            cc_publish_calls>>

vars == <<ceVars, rrVars, geVars, dpVars, cnVars, gwVars, lcVars, uhVars, ccVars>>

\* what each subsystem leaves alone
ceOthers == <<rrVars, geVars, dpVars, cnVars, gwVars, lcVars, uhVars, ccVars>>
rrOthers == <<ceVars, geVars, dpVars, cnVars, gwVars, lcVars, uhVars, ccVars>>
geOthers == <<ceVars, rrVars, dpVars, cnVars, gwVars, lcVars, uhVars, ccVars>>
dpOthers == <<ceVars, rrVars, geVars, cnVars, gwVars, lcVars, uhVars, ccVars>>
cnOthers == <<ceVars, rrVars, geVars, dpVars, gwVars, lcVars, uhVars, ccVars>>
gwOthers == <<ceVars, rrVars, geVars, dpVars, cnVars, lcVars, uhVars, ccVars>>
lcOthers == <<ceVars, rrVars, geVars, dpVars, cnVars, gwVars, uhVars, ccVars>>
uhOthers == <<ceVars, rrVars, geVars, dpVars, cnVars, gwVars, lcVars, ccVars>>
ccOthers == <<ceVars, rrVars, geVars, dpVars, cnVars, gwVars, lcVars, uhVars>>


(***************************************************************************)
(* create_event: conflict check against the user's existing events, then   *)
(* publication of event_creation_requested on events_events.               *)
(***************************************************************************)
NoTimes == [wall |-> 0, suffix |-> ""]

\* the event records the Events Service may return for a user
StoredEventForms ==
    {[has_times |-> FALSE, start_time |-> NoTimes, end_time |-> NoTimes]}
    \cup {[has_times |-> TRUE,
           start_time |-> [wall |-> s, suffix |-> x],
           end_time |-> [wall |-> e, suffix |-> x]] :
             s \in Times, e \in Times, x \in IsoSuffixes}

WithId(form, i) ==
    [id |-> i, has_times |-> form.has_times,
     start_time |-> form.start_time, end_time |-> form.end_time]

StoredLists ==
    UNION {{[i \in 1..n |-> WithId(f[i], i)] : f \in [1..n -> StoredEventForms]} :
             n \in 0..MaxStored}

\* request bodies: pydantic accepts naive and aware datetimes, in any order
EventCreateRequest ==
    {[start_time |-> MkDateTime(s, z), end_time |-> MkDateTime(e, z)] :
        s \in Times, e \in Times, z \in TzInfos}

NoRequest == [start_time |-> Naive(0), end_time |-> Naive(0)]
NoResponse == [kind |-> "none", status_code |-> 0, events |-> <<>>]

overlap_condition_1(new_start_utc, new_end_utc, existing_start, existing_end) ==
    Instant(new_start_utc) < Instant(existing_end)
    /\ Instant(new_end_utc) > Instant(existing_start)

overlap_condition_2(new_start_utc, new_end_utc, existing_start, existing_end) ==
    Instant(new_start_utc) >= Instant(existing_start)
    /\ Instant(new_start_utc) < Instant(existing_end)

overlap_condition_3(new_start_utc, new_end_utc, existing_start, existing_end) ==
    Instant(new_end_utc) > Instant(existing_start)
    /\ Instant(new_end_utc) <= Instant(existing_end)

\* has_overlap with the boundaries compared inclusively
has_overlap_inclusive(new_start_utc, new_end_utc, event) ==
    LET existing_start == AsUtc(FromIsoformat(event.start_time))
        existing_end == AsUtc(FromIsoformat(event.end_time))
    IN Instant(new_start_utc) <= Instant(existing_end)
       /\ Instant(new_end_utc) >= Instant(existing_start)

has_overlap(new_start_utc, new_end_utc, event) ==
    LET existing_start == AsUtc(FromIsoformat(event.start_time))
        existing_end == AsUtc(FromIsoformat(event.end_time))
    IN overlap_condition_1(new_start_utc, new_end_utc, existing_start, existing_end)
       \/ overlap_condition_2(new_start_utc, new_end_utc, existing_start, existing_end)
       \/ overlap_condition_3(new_start_utc, new_end_utc, existing_start, existing_end)

\* the loop over existing_events: events without both keys are skipped
ConflictLoop(data, existing_events) ==
    LET new_start_utc == AsUtc(data.start_time)
        new_end_utc == AsUtc(data.end_time)
    IN SelectSeq(existing_events,
                 LAMBDA event : event.has_times
                                /\ has_overlap(new_start_utc, new_end_utc, event))

\* RedisService.is_connected and RedisService.publish_event are coroutine
\* functions that EventService.publish_event calls without awaiting: both
\* calls yield a coroutine object, which is truthy.
Coroutine == "coroutine"
Truthy(v) == v \notin {"False", "None", ""}

EventService_publish_event(channel, event_type, payload) ==
    IF ~Truthy(Coroutine)
    THEN [published |-> FALSE, error |-> "Redis not connected"]
    ELSE IF Truthy(Coroutine)
         THEN [published |-> TRUE, error |-> ""]
         ELSE [published |-> FALSE, error |-> "Failed to publish event"]

\* the request/reply subsystem at rest
NoMsg == [seq |-> 0, valid |-> FALSE, object |-> FALSE, type |-> "",
          correlation_id |-> 0, payload |-> ""]

RRIdle ==
    /\ rr_api = "none"
    /\ rr_pc = "idle"
    /\ correlation_id = 0
    /\ subscribers = {}
    /\ thread_state = "none"
    /\ inbox = <<>>
    /\ arrived = <<>>
    /\ response = NoMsg
    /\ event_set = FALSE
    /\ clock = 0
    /\ poll_start = 0
    /\ returned = NoMsg
    /\ rr_outcome = "none"
    /\ groups_channel = <<>>
    /\ msg_count = 0

\* create_event at rest
CEIdle ==
    /\ store = <<>>
    /\ ce_pc = "idle"
    /\ event_data = NoRequest
    /\ events_response = NoResponse
    /\ conflicting_events = <<>>
    /\ ce_result = "none"
    /\ publish_calls = <<>>

\* create_group_event at rest
GEIdle ==
    /\ ge_pc = "idle"
    /\ group_event_data = NoRequest
    /\ group_members = <<>>
    /\ members_bound = FALSE
    /\ member_idx = 0
    /\ member_events = <<>>
    /\ conflicting_members = <<>>
    /\ attempts = <<>>
    /\ created_events = <<>>
    /\ failed_members = <<>>
    /\ registered = <<>>
    /\ ge_result = "none"

\* the event types of the users service, and one nobody handles
EventTypes == {"user_register_requested", "user_login_requested"}
NoEvent == [mtype |-> "", data |-> "", event_type |-> ""]

\* the dispatcher at rest, nothing registered
DPIdle ==
    /\ handlers = [ty \in EventTypes |-> <<>>]
    /\ dp_pc = "idle"
    /\ dp_message = NoEvent
    /\ dp_idx = 0
    /\ invoked = <<>>
    /\ handler_errors = 0
    /\ dp_propagated = FALSE
    /\ dp_count = 0

\* the two callers of the connector: a publisher and the subscription loop
Procs == {"publisher", "listener"}

\* the connector before anything called it
CNIdle ==
    /\ broker = "up"
    /\ outages = 0
    /\ restored = FALSE
    /\ client = "none"
    /\ pubsub = "none"
    /\ same_conn = FALSE
    /\ cn_pc = [p \in Procs |-> "idle"]
    /\ cn_stack = [p \in Procs |-> <<>>]
    /\ cn_ret = [p \in Procs |-> FALSE]
    /\ attempt = [p \in Procs |-> 0]
    /\ waits = [p \in Procs |-> <<>>]
    /\ pe_calls = 0
    /\ pe_connects = 0
    /\ pe_subscribed = FALSE
    /\ pe_first = FALSE
    /\ pe_result = "none"

\* correlation ids of the requests whose responses the gateway stores
MaxCorrelation == 2
CorrelationIds == 1..MaxCorrelation
Absent == [stored |-> FALSE, success |-> FALSE, message |-> "", type |-> ""]
NoCall == [api |-> "none", published |-> FALSE, error |-> "", http |-> 0]
NoHealth == [redis |-> "none", status |-> "none", reachable |-> FALSE]
NoStatus == [event_id |-> 0, status |-> "none", success |-> FALSE,
             message |-> ""]

\* the gateway before any request
GWIdle ==
    /\ gw_broker = "up"
    /\ gw_client = "none"
    /\ gw_handed = 0
    /\ gw_call = NoCall
    /\ gw_health = NoHealth
    /\ event_responses = [c \in CorrelationIds |-> Absent]
    /\ gw_status = NoStatus

\* events_listener tasks that start-events may create
TaskIds == 1..MaxStarts

\* both services before start-up
LCIdle ==
    /\ events_listener_running = FALSE
    /\ events_listener_task = 0
    /\ tasks = [i \in TaskIds |-> "unborn"]
    /\ lc_answer = "none"
    /\ us_shutdown = "no"
    /\ gl_thread = "none"
    /\ gl_shutdown = FALSE
    /\ gl_polled_after = FALSE

NoUserEvent == [type |-> "", path |-> ""]

\* the user event handler before any event
UHIdle ==
    /\ uh_pc = "idle"
    /\ uh_event = NoUserEvent
    /\ uh_handler = "none"
    /\ uh_responses = <<>>
    /\ uh_raised = FALSE
    /\ uh_count = 0

\* the requests the event loop serves together
Requests == {1, 2}

\* no create_event request in flight
CCIdle ==
    /\ cc_store = <<>>
    /\ cc_pc = [r \in Requests |-> "idle"]
    /\ cc_data = [r \in Requests |-> NoRequest]
    /\ cc_response = [r \in Requests |-> NoResponse]
    /\ cc_before = [r \in Requests |-> 0]
    /\ cc_result = [r \in Requests |-> "none"]
    /\ cc_publish_calls = <<>>

InitCreateEvent ==
    /\ RRIdle
    /\ GEIdle
    /\ DPIdle
    /\ CNIdle
    /\ GWIdle
    /\ LCIdle
    /\ UHIdle
    /\ CCIdle
    /\ store \in StoredLists
    /\ ce_pc = "idle"
    /\ event_data = NoRequest
    /\ events_response = NoResponse
    /\ conflicting_events = <<>>
    /\ ce_result = "none"
    /\ publish_calls = <<>>

\* POST /api/v1/events arrives
CE_Request ==
    /\ ce_pc = "idle"
    /\ \E d \in EventCreateRequest : event_data' = d
    /\ ce_pc' = "lookup"
    /\ UNCHANGED <<store, events_response, conflicting_events, ce_result,
                   publish_calls>>
    /\ UNCHANGED ceOthers

\* await make_events_service_request(...): an answer, or HTTPException
CE_Lookup ==
    /\ ce_pc = "lookup"
    /\ \/ events_response' = [kind |-> "response", status_code |-> 200,
                              events |-> store]
       \/ events_response' = [kind |-> "response", status_code |-> 500,
                              events |-> <<>>]
       \/ events_response' = [kind |-> "raised", status_code |-> 0,
                              events |-> <<>>]
    /\ ce_pc' = "check"
    /\ UNCHANGED <<store, event_data, conflicting_events, ce_result,
                   publish_calls>>
    /\ UNCHANGED ceOthers

\* step 2 of create_event: publish on events_events and answer
CE_Publish ==
    LET payload == [start_time |-> ReplaceUtc(event_data.start_time),
                    end_time |-> ReplaceUtc(event_data.end_time)]
        result == EventService_publish_event("events_events",
                                             "event_creation_requested", payload)
    IN /\ publish_calls' = Append(publish_calls,
                                  [channel |-> "events_events",
                                   type |-> "event_creation_requested",
                                   payload |-> payload])
       /\ ce_result' = IF ~result.published THEN "http_503" ELSE "success"

\* CE_Check without the early return on conflicting_events
CE_Check_no_return ==
    /\ ce_pc = "check"
    /\ ce_pc' = "done"
    /\ IF events_response.kind = "raised"
       THEN /\ ce_result' = "error"
            /\ UNCHANGED <<conflicting_events, publish_calls>>
       ELSE /\ conflicting_events' =
                   IF events_response.status_code = 200
                   THEN ConflictLoop(event_data, events_response.events)
                   ELSE conflicting_events
            /\ CE_Publish
    /\ UNCHANGED <<store, event_data, events_response>>
    /\ UNCHANGED ceOthers

\* the rest of create_event runs without suspension
CE_Check ==
    /\ ce_pc = "check"
    /\ ce_pc' = "done"
    /\ IF events_response.kind = "raised"
       THEN /\ ce_result' = "error"
            /\ UNCHANGED <<conflicting_events, publish_calls>>
       ELSE IF events_response.status_code = 200
            THEN /\ conflicting_events' =
                        ConflictLoop(event_data, events_response.events)
                 /\ IF conflicting_events' # <<>>
                    THEN /\ ce_result' = "error"
                         /\ UNCHANGED publish_calls
                    ELSE CE_Publish
            ELSE /\ UNCHANGED conflicting_events
                 /\ CE_Publish
    /\ UNCHANGED <<store, event_data, events_response>>
    /\ UNCHANGED ceOthers

NextCreateEvent == CE_Request \/ CE_Lookup \/ CE_Check

SpecCreateEvent == InitCreateEvent /\ [][NextCreateEvent]_vars

(***************************************************************************)
(* Request/reply over the broker: list_user_groups (groups_router) and      *)
(* EventService.wait_for_response.  Calls are issued one after the other;   *)
(* the broker delivers a published message to the subscriptions that exist  *)
(* at that moment and drops it otherwise.                                   *)
(***************************************************************************)
Timeout == 10
PollTimeout == 1

\* correlation ids carried by a response: the request's own, another one
\* (OtherCid) or none at all (MissingCid)
OtherCid == 0
MissingCid == -1

\* the shapes of message a publisher may put on a response channel
MsgForms(c) ==
    {[valid |-> TRUE, object |-> TRUE, type |-> "list_user_groups_response",
      correlation_id |-> c, payload |-> "groups"],
     [valid |-> TRUE, object |-> TRUE, type |-> "list_user_groups_response",
      correlation_id |-> OtherCid, payload |-> "groups"],
     [valid |-> TRUE, object |-> TRUE, type |-> "list_user_groups_response",
      correlation_id |-> MissingCid, payload |-> "groups"],
     [valid |-> TRUE, object |-> TRUE, type |-> "other",
      correlation_id |-> c, payload |-> "groups"],
     [valid |-> TRUE, object |-> TRUE, type |-> "list_user_groups_response",
      correlation_id |-> c, payload |-> ""],
     \* data that is not JSON
     [valid |-> FALSE, object |-> FALSE, type |-> "",
      correlation_id |-> MissingCid, payload |-> ""],
     \* data that is JSON but not an object (a list, a number, null)
     [valid |-> TRUE, object |-> FALSE, type |-> "",
      correlation_id |-> MissingCid, payload |-> ""]}

MkMsg(f, n) ==
    [seq |-> n, valid |-> f.valid, object |-> f.object, type |-> f.type,
     correlation_id |-> f.correlation_id, payload |-> f.payload]

Subscription(c, kind) == [channel |-> c, kind |-> kind]

InitReply ==
    /\ RRIdle
    /\ CEIdle
    /\ GEIdle
    /\ DPIdle
    /\ CNIdle
    /\ GWIdle
    /\ LCIdle
    /\ UHIdle
    /\ CCIdle

\* a new call: uuid4() gives a correlation id no earlier request used
NewCall(api, pc) ==
    /\ rr_pc \in {"idle", "done"}
    /\ correlation_id < MaxRequests
    /\ correlation_id' = correlation_id + 1
    /\ rr_api' = api
    /\ rr_pc' = pc
    /\ inbox' = <<>>
    /\ arrived' = <<>>
    /\ response' = NoMsg
    /\ event_set' = FALSE
    /\ clock' = 0
    /\ poll_start' = 0
    /\ returned' = NoMsg
    /\ rr_outcome' = "none"
    /\ msg_count' = 0
    /\ thread_state' = "none"
    /\ UNCHANGED <<subscribers, groups_channel>>
    /\ UNCHANGED rrOthers

\* the call returns: value, exit path, and the subscriptions left behind
Return(value, outcome, subs) ==
    /\ rr_pc' = "done"
    /\ returned' = value
    /\ rr_outcome' = outcome
    /\ subscribers' = subs

\* finally: pubsub.unsubscribe(response_channel); pubsub.close()
Finally == subscribers \ {Subscription(correlation_id, "pubsub")}

LUG_Call == NewCall("list_user_groups", "lug_publish1")

\* await event_service.redis.publish_event("groups", ...) before subscribing
LUG_Publish1 ==
    /\ rr_pc = "lug_publish1"
    /\ \/ /\ groups_channel' = Append(groups_channel,
                [correlation_id |-> correlation_id,
                 subscribed |-> Subscription(correlation_id, "pubsub")
                                    \in subscribers])
          /\ rr_pc' = "lug_subscribe"
          /\ UNCHANGED <<returned, rr_outcome, subscribers>>
       \/ /\ Return(NoMsg, "publish_failed", subscribers)
          /\ UNCHANGED groups_channel
    /\ UNCHANGED <<rr_api, correlation_id, thread_state, inbox, arrived,
                   response, event_set, clock, poll_start, msg_count>>
    /\ UNCHANGED rrOthers

\* pubsub = redis_client.pubsub(); await pubsub.subscribe(response_channel)
LUG_Subscribe ==
    /\ rr_pc = "lug_subscribe"
    /\ \/ /\ subscribers' = subscribers \cup
                              {Subscription(correlation_id, "pubsub")}
          /\ rr_pc' = "lug_confirm"
          /\ UNCHANGED <<returned, rr_outcome>>
       \/ Return(NoMsg, "exception", Finally)
    /\ UNCHANGED <<rr_api, correlation_id, thread_state, inbox, arrived,
                   response, event_set, clock, poll_start, groups_channel,
                   msg_count>>
    /\ UNCHANGED rrOthers

\* sub_message = await pubsub.get_message(..., timeout=5.0)
LUG_Confirm ==
    /\ rr_pc = "lug_confirm"
    /\ \/ /\ rr_pc' = "lug_publish2"
          /\ UNCHANGED <<returned, rr_outcome, subscribers>>
       \/ Return(NoMsg, "not_confirmed", Finally)
       \/ Return(NoMsg, "exception", Finally)
    /\ UNCHANGED <<rr_api, correlation_id, thread_state, inbox, arrived,
                   response, event_set, clock, poll_start, groups_channel,
                   msg_count>>
    /\ UNCHANGED rrOthers

\* result = await redis_client.publish("groups", ...); start_time = time.time()
LUG_Publish2 ==
    /\ rr_pc = "lug_publish2"
    /\ \/ /\ groups_channel' = Append(groups_channel,
                [correlation_id |-> correlation_id,
                 subscribed |-> Subscription(correlation_id, "pubsub")
                                    \in subscribers])
          /\ rr_pc' = "lug_loop"
          /\ clock' = 0
          /\ UNCHANGED <<returned, rr_outcome, subscribers>>
       \/ /\ Return(NoMsg, "publish_failed", Finally)
          /\ UNCHANGED <<groups_channel, clock>>
       \/ /\ Return(NoMsg, "exception", Finally)
          /\ UNCHANGED <<groups_channel, clock>>
    /\ UNCHANGED <<rr_api, correlation_id, thread_state, inbox, arrived,
                   response, event_set, poll_start, msg_count>>
    /\ UNCHANGED rrOthers

\* the loop condition with the deadline one second short
LoopCondition_short(elapsed) == elapsed < Timeout - 1

\* time.time() - start_time < 10.0
LoopCondition(elapsed) == elapsed < Timeout

\* while time.time() - start_time < 10.0: ... get_message(timeout=1.0) begins
LUG_LoopTest ==
    /\ rr_pc = "lug_loop"
    /\ IF LoopCondition(clock)
       THEN rr_pc' = "lug_poll" /\ poll_start' = clock
       ELSE rr_pc' = "lug_after" /\ UNCHANGED poll_start
    /\ UNCHANGED <<rr_api, correlation_id, subscribers, thread_state, inbox,
                   arrived, response, event_set, clock, returned, rr_outcome,
                   groups_channel, msg_count>>
    /\ UNCHANGED rrOthers

\* json.loads, data.get("type") == "list_user_groups_response"; whatever
\* these raise is caught by the inner except Exception: continue
LugMatches(m) ==
    m.valid /\ m.object /\ m.type = "list_user_groups_response"

\* get_message returns a message: json.loads, the type test, break
LUG_PollMessage ==
    /\ rr_pc = "lug_poll"
    /\ inbox # <<>>
    /\ inbox' = Tail(inbox)
    /\ IF LugMatches(Head(inbox))
       THEN response' = Head(inbox) /\ rr_pc' = "lug_after"
       ELSE UNCHANGED response /\ rr_pc' = "lug_loop"
    /\ UNCHANGED <<rr_api, correlation_id, subscribers, thread_state, arrived,
                   event_set, clock, poll_start, returned, rr_outcome,
                   groups_channel, msg_count>>
    /\ UNCHANGED rrOthers

\* get_message returns None after its timeout
LUG_PollTimeout ==
    /\ rr_pc = "lug_poll"
    /\ inbox = <<>>
    /\ clock >= poll_start + PollTimeout
    /\ rr_pc' = "lug_loop"
    /\ UNCHANGED <<rr_api, correlation_id, subscribers, thread_state, inbox,
                   arrived, response, event_set, clock, poll_start, returned,
                   rr_outcome, groups_channel, msg_count>>
    /\ UNCHANGED rrOthers

\* get_message raises (connection lost): except Exception, finally
LUG_PollRaise ==
    /\ rr_pc = "lug_poll"
    /\ Return(NoMsg, "exception", Finally)
    /\ UNCHANGED <<rr_api, correlation_id, thread_state, inbox, arrived,
                   response, event_set, clock, poll_start, groups_channel,
                   msg_count>>
    /\ UNCHANGED rrOthers

\* if response_received: (an empty payload dict is falsy)
LUG_Return ==
    /\ rr_pc = "lug_after"
    /\ IF response # NoMsg /\ Truthy(response.payload)
       THEN Return(response, "resolved", Finally)
       ELSE Return(NoMsg, "no_response", Finally)
    /\ UNCHANGED <<rr_api, correlation_id, thread_state, inbox, arrived,
                   response, event_set, clock, poll_start, groups_channel,
                   msg_count>>
    /\ UNCHANGED rrOthers

WFR_Call == NewCall("wait_for_response", "wfr_start")

\* if not self.redis.is_connected(): return None -- is_connected() is called
\* without await, so the test sees a coroutine object; then thread.start()
WFR_StartThread ==
    /\ rr_pc = "wfr_start"
    /\ IF ~Truthy(Coroutine)
       THEN /\ Return(NoMsg, "not_connected", subscribers)
            /\ UNCHANGED thread_state
       ELSE /\ thread_state' = "starting"
            /\ rr_pc' = "wfr_wait"
            /\ UNCHANGED <<returned, rr_outcome, subscribers>>
    /\ clock' = 0
    /\ UNCHANGED <<rr_api, correlation_id, inbox, arrived, response, event_set,
                   poll_start, groups_channel, msg_count>>
    /\ UNCHANGED rrOthers

\* RedisService.subscribe_to_channel in the thread: pubsub.subscribe(channel),
\* or the thread dies on an error of the client
Thread_Subscribe ==
    /\ thread_state = "starting"
    /\ \/ /\ thread_state' = "listening"
          /\ subscribers' = subscribers \cup
                              {Subscription(correlation_id, "thread")}
       \/ /\ thread_state' = "dead"
          /\ UNCHANGED subscribers
    /\ UNCHANGED <<rr_api, rr_pc, correlation_id, inbox, arrived, response,
                   event_set, clock, poll_start, returned, rr_outcome,
                   groups_channel, msg_count>>
    /\ UNCHANGED rrOthers

\* callback(message): message.get('correlation_id') == correlation_id
callback(m) ==
    IF m.correlation_id = correlation_id
    THEN response' = m /\ event_set' = TRUE
    ELSE UNCHANGED <<response, event_set>>

\* for message in pubsub.listen(): json.loads, callback; JSONDecodeError:
\* continue. message.get of the callback raises AttributeError on data that
\* is not an object; nothing catches it and the thread ends
Thread_Listen ==
    /\ thread_state = "listening"
    /\ inbox # <<>>
    /\ inbox' = Tail(inbox)
    /\ IF ~Head(inbox).valid
       THEN UNCHANGED <<response, event_set, thread_state>>
       ELSE IF ~Head(inbox).object
       THEN thread_state' = "crashed" /\ UNCHANGED <<response, event_set>>
       ELSE callback(Head(inbox)) /\ UNCHANGED thread_state
    /\ UNCHANGED <<rr_api, rr_pc, correlation_id, subscribers,
                   arrived, clock, poll_start, returned, rr_outcome,
                   groups_channel, msg_count>>
    /\ UNCHANGED rrOthers

\* asyncio.wait_for(event.wait(), timeout=timeout) ends; return response
WFR_Return ==
    /\ rr_pc = "wfr_wait"
    /\ event_set \/ clock >= Timeout
    /\ Return(response, IF response # NoMsg THEN "resolved" ELSE "no_response",
              subscribers)
    /\ UNCHANGED <<rr_api, correlation_id, thread_state, inbox, arrived,
                   response, event_set, clock, poll_start, groups_channel,
                   msg_count>>
    /\ UNCHANGED rrOthers

\* the subscription on the current request's response channel, if any
CurrentSubscription ==
    IF rr_api = "list_user_groups"
    THEN Subscription(correlation_id, "pubsub")
    ELSE Subscription(correlation_id, "thread")

\* the peer knows the response channel once it has seen the request
RequestSeen ==
    IF rr_api = "list_user_groups"
    THEN \E i \in 1..Len(groups_channel) :
            groups_channel[i].correlation_id = correlation_id
    ELSE rr_api = "wait_for_response"

\* some publisher puts a message on the response channel of the request
Respond ==
    /\ RequestSeen
    /\ msg_count < MaxMsgs
    /\ msg_count' = msg_count + 1
    /\ \E f \in MsgForms(correlation_id) :
          IF CurrentSubscription \in subscribers
          THEN /\ inbox' = Append(inbox, MkMsg(f, msg_count + 1))
               /\ arrived' = Append(arrived, MkMsg(f, msg_count + 1))
          ELSE UNCHANGED <<inbox, arrived>>
    /\ UNCHANGED <<rr_api, rr_pc, correlation_id, subscribers, thread_state,
                   response, event_set, clock, poll_start, returned,
                   rr_outcome, groups_channel>>
    /\ UNCHANGED rrOthers

\* a second passes while the caller waits
Tick ==
    /\ rr_pc \in {"lug_loop", "lug_poll", "wfr_wait"}
    /\ clock <= Timeout
    /\ clock' = clock + 1
    /\ UNCHANGED <<rr_api, rr_pc, correlation_id, subscribers, thread_state,
                   inbox, arrived, response, event_set, poll_start, returned,
                   rr_outcome, groups_channel, msg_count>>
    /\ UNCHANGED rrOthers

NextReply ==
    \/ LUG_Call \/ LUG_Publish1 \/ LUG_Subscribe \/ LUG_Confirm
    \/ LUG_Publish2 \/ LUG_LoopTest \/ LUG_PollMessage \/ LUG_PollTimeout
    \/ LUG_PollRaise \/ LUG_Return
    \/ WFR_Call \/ WFR_StartThread \/ Thread_Subscribe \/ Thread_Listen
    \/ WFR_Return
    \/ Respond \/ Tick

SpecReply == InitReply /\ [][NextReply]_vars

\* the event loop keeps running the waiting coroutine and time passes
WaiterStep ==
    LUG_LoopTest \/ LUG_PollMessage \/ LUG_PollTimeout \/ LUG_Return
    \/ WFR_StartThread \/ WFR_Return

SpecReplyFair ==
    InitReply /\ [][NextReply]_vars /\ WF_vars(WaiterStep) /\ WF_vars(Tick)

(***************************************************************************)
(* create_group_event: membership check, conflict pre-check over the        *)
(* members, one creation request per member, registration, answer.  Every   *)
(* await is a step; the creation requests go to the gateway's own           *)
(* POST /api/v1/events, whose answer is one of four kinds.                  *)
(***************************************************************************)
\* the member lists the Groups Service may return: distinct user ids
MemberLists == {[i \in 1..n |-> i] : n \in 0..MaxMembers}

\* events a member lookup may return: at most one event per member
MemberEventLists ==
    {<<>>} \cup {<<WithId(f, 1)>> : f \in StoredEventForms}

\* answers of POST /api/v1/events as the creation loop tells them apart
CreationOutcomes == {"success", "error_response", "non_200", "exception"}

InitGroupEvent ==
    /\ RRIdle
    /\ CEIdle
    /\ GEIdle
    /\ DPIdle
    /\ CNIdle
    /\ GWIdle
    /\ LCIdle
    /\ UHIdle
    /\ CCIdle

\* POST /api/v1/group-events arrives
GE_Request ==
    /\ ge_pc = "idle"
    /\ \E d \in EventCreateRequest : group_event_data' = d
    /\ ge_pc' = "membership"
    /\ UNCHANGED <<group_members, members_bound, member_idx, member_events,
                   conflicting_members, attempts, created_events,
                   failed_members, registered, ge_result>>
    /\ UNCHANGED geOthers

\* step 1: GET /groups/{group_id}
GE_Membership ==
    /\ ge_pc = "membership"
    /\ \/ ge_pc' = "members" /\ UNCHANGED ge_result
       \/ ge_pc' = "done" /\ ge_result' = "error"
    /\ UNCHANGED <<group_event_data, group_members, members_bound, member_idx,
                   member_events, conflicting_members, attempts,
                   created_events, failed_members, registered>>
    /\ UNCHANGED geOthers

\* step 2: GET /groups/{group_id}/members; on a non-200 answer or an
\* exception the name group_members is never assigned
GE_Members ==
    /\ ge_pc = "members"
    /\ \/ /\ \E ms \in MemberLists : group_members' = ms
          /\ members_bound' = TRUE
          /\ ge_pc' = "precheck"
          /\ member_idx' = 1
       \/ /\ UNCHANGED <<group_members, members_bound>>
          /\ ge_pc' = "create"
          /\ member_idx' = 1
    /\ UNCHANGED <<group_event_data, member_events, conflicting_members,
                   attempts, created_events, failed_members, registered,
                   ge_result>>
    /\ UNCHANGED geOthers

\* overlap = (new_start_utc < existing_end and new_end_utc > existing_start)
overlap(new_start_utc, new_end_utc, event) ==
    LET existing_start == AsUtc(FromIsoformat(event.start_time))
        existing_end == AsUtc(FromIsoformat(event.end_time))
    IN Instant(new_start_utc) < Instant(existing_end)
       /\ Instant(new_end_utc) > Instant(existing_start)

\* the events of one member that the pre-check flags
MemberConflicts(data, member_id, events) ==
    LET flagged == SelectSeq(events,
                     LAMBDA event : overlap(AsUtc(data.start_time),
                                            AsUtc(data.end_time), event))
    IN [k \in 1..Len(flagged) |->
           [member_id |-> member_id, conflicting_event |-> flagged[k].id]]

\* one turn of the pre-check loop: await make_api_request(GET events of the
\* member); an event without start_time raises KeyError; any exception
\* leaves the try block and the creation loop follows
GE_PrecheckMember ==
    /\ ge_pc = "precheck"
    /\ member_idx <= Len(group_members)
    /\ \/ \E evs \in MemberEventLists :
            /\ member_events' = evs
            /\ IF \E k \in 1..Len(evs) : ~evs[k].has_times
               THEN /\ ge_pc' = "create"
                    /\ member_idx' = 1
                    /\ UNCHANGED conflicting_members
               ELSE /\ conflicting_members' = conflicting_members \o
                          MemberConflicts(group_event_data,
                                          group_members[member_idx], evs)
                    /\ member_idx' = member_idx + 1
                    /\ UNCHANGED ge_pc
       \/ /\ member_idx' = member_idx + 1
          /\ UNCHANGED <<ge_pc, member_events, conflicting_members>>
       \/ /\ ge_pc' = "create"
          /\ member_idx' = 1
          /\ UNCHANGED <<member_events, conflicting_members>>
    /\ UNCHANGED <<group_event_data, group_members, members_bound, attempts,
                   created_events, failed_members, registered, ge_result>>
    /\ UNCHANGED geOthers

\* if conflicting_members: return status error
GE_PrecheckEnd ==
    /\ ge_pc = "precheck"
    /\ member_idx > Len(group_members)
    /\ IF conflicting_members # <<>>
       THEN ge_pc' = "done" /\ ge_result' = "error" /\ UNCHANGED member_idx
       ELSE ge_pc' = "create" /\ member_idx' = 1 /\ UNCHANGED ge_result
    /\ UNCHANGED <<group_event_data, group_members, members_bound,
                   member_events, conflicting_members, attempts,
                   created_events, failed_members, registered>>
    /\ UNCHANGED geOthers

\* for member in group_members: with the name unbound this is a NameError
GE_CreateUnbound ==
    /\ ge_pc = "create"
    /\ ~members_bound
    /\ ge_pc' = "done"
    /\ ge_result' = "raised"
    /\ UNCHANGED <<group_event_data, group_members, members_bound, member_idx,
                   member_events, conflicting_members, attempts,
                   created_events, failed_members, registered>>
    /\ UNCHANGED geOthers

\* the creation loop body without the except branch around the request
CreateMember_unhandled(member_id, outcome) ==
    /\ attempts' = Append(attempts, member_id)
    /\ IF outcome = "success"
       THEN /\ created_events' = Append(created_events,
                    [member_id |-> member_id, event_id |-> Len(attempts) + 1])
            /\ UNCHANGED failed_members
       ELSE IF outcome = "exception"
            THEN UNCHANGED <<created_events, failed_members>>
            ELSE /\ failed_members' = Append(failed_members,
                        [member_id |-> member_id, error |-> "message"])
                 /\ UNCHANGED created_events

\* the body of the creation loop for one member and one answer
CreateMember(member_id, outcome) ==
    /\ attempts' = Append(attempts, member_id)
    /\ IF outcome = "success"
       THEN /\ created_events' = Append(created_events,
                    [member_id |-> member_id, event_id |-> Len(attempts) + 1])
            /\ UNCHANGED failed_members
       ELSE /\ failed_members' = Append(failed_members,
                    [member_id |-> member_id,
                     error |-> CASE outcome = "error_response" -> "message"
                                 [] outcome = "non_200" ->
                                      "Error en la respuesta del servicio"
                                 [] OTHER -> "str(e)"])
            /\ UNCHANGED created_events

\* step 3, one turn: await make_api_request("/api/v1/events", "POST", ...)
GE_CreateMember ==
    /\ ge_pc = "create"
    /\ members_bound
    /\ member_idx <= Len(group_members)
    /\ \E outcome \in CreationOutcomes :
          CreateMember(group_members[member_idx], outcome)
    /\ member_idx' = member_idx + 1
    /\ UNCHANGED <<ge_pc, group_event_data, group_members, members_bound,
                   member_events, conflicting_members, registered, ge_result>>
    /\ UNCHANGED geOthers

\* step 3 ends; step 4 begins
GE_CreateEnd ==
    /\ ge_pc = "create"
    /\ members_bound
    /\ member_idx > Len(group_members)
    /\ ge_pc' = "register"
    /\ member_idx' = 1
    /\ UNCHANGED <<group_event_data, group_members, members_bound,
                   member_events, conflicting_members, attempts,
                   created_events, failed_members, registered, ge_result>>
    /\ UNCHANGED geOthers

\* step 5: the status answered
AggregateStatus(created, failed) ==
    IF failed # <<>> THEN "partial_success" ELSE "success"

\* step 4, one turn: POST /groups/{group_id}/events; an exception ends the
\* registration.  Step 5 follows without suspension.
GE_Register ==
    /\ ge_pc = "register"
    /\ IF member_idx <= Len(created_events)
       THEN \/ /\ registered' = Append(registered,
                                       created_events[member_idx].event_id)
               /\ member_idx' = member_idx + 1
               /\ UNCHANGED <<ge_pc, ge_result>>
            \/ /\ ge_pc' = "done"
               /\ ge_result' = AggregateStatus(created_events, failed_members)
               /\ UNCHANGED <<registered, member_idx>>
       ELSE /\ ge_pc' = "done"
            /\ ge_result' = AggregateStatus(created_events, failed_members)
            /\ UNCHANGED <<registered, member_idx>>
    /\ UNCHANGED <<group_event_data, group_members, members_bound,
                   member_events, conflicting_members, attempts,
                   created_events, failed_members>>
    /\ UNCHANGED geOthers

NextGroupEvent ==
    \/ GE_Request \/ GE_Membership \/ GE_Members \/ GE_PrecheckMember
    \/ GE_PrecheckEnd \/ GE_CreateUnbound \/ GE_CreateMember \/ GE_CreateEnd
    \/ GE_Register

SpecGroupEvent == InitGroupEvent /\ [][NextGroupEvent]_vars

(***************************************************************************)
(* users_service RedisService: register_handler and _process_message.       *)
(* Handlers are awaited one after the other: a coroutine function inline,   *)
(* a plain function through the thread pool.                                *)
(***************************************************************************)
\* the callables that get registered: a plain function and a coroutine one
HandlerPool == {[id |-> 1, is_async |-> FALSE], [id |-> 2, is_async |-> TRUE]}

\* what the subscription may hand to _process_message
DispatchMessages ==
    {[mtype |-> "message", data |-> "event", event_type |-> ty] :
        ty \in EventTypes \cup {"", "unhandled_event"}}
    \cup {[mtype |-> "message", data |-> "badjson", event_type |-> ""],
          [mtype |-> "message", data |-> "nonobject", event_type |-> ""],
          [mtype |-> "subscribe", data |-> "", event_type |-> ""]}

\* self.handlers.get(event_type, [])
HandlersFor(ty) == IF ty \in DOMAIN handlers THEN handlers[ty] ELSE <<>>

Registrations ==
    Len(handlers["user_register_requested"])
      + Len(handlers["user_login_requested"])

InitDispatch ==
    /\ RRIdle
    /\ CEIdle
    /\ GEIdle
    /\ DPIdle
    /\ CNIdle
    /\ GWIdle
    /\ LCIdle
    /\ UHIdle
    /\ CCIdle

\* register_handler(event_type, handler), at start-up
DP_Register ==
    /\ dp_pc = "idle"
    /\ dp_count = 0
    /\ Registrations < MaxRegistrations
    /\ \E ty \in EventTypes, h \in HandlerPool :
          handlers' = [handlers EXCEPT ![ty] = Append(@, h)]
    /\ UNCHANGED <<dp_pc, dp_message, dp_idx, invoked, handler_errors,
                   dp_propagated, dp_count>>
    /\ UNCHANGED dpOthers

\* the listener takes a message (get_message in subscribe_to_channel) and
\* awaits _process_message, here up to its first await: the checks on the
\* message, the JSON decoding, the type, the handler lookup.  The listener
\* polls again only when the awaited _process_message has returned.
DP_Receive ==
    /\ dp_pc \in {"idle", "done"}
    /\ dp_count < MaxDispatch
    /\ dp_count' = dp_count + 1
    /\ \E m \in DispatchMessages :
          /\ dp_message' = m
          /\ IF /\ m.mtype = "message"
                /\ m.data = "event"
                /\ m.event_type # ""
                /\ HandlersFor(m.event_type) # <<>>
             THEN dp_pc' = "dispatch"
             ELSE dp_pc' = "done"
    /\ dp_idx' = 1
    /\ invoked' = <<>>
    /\ handler_errors' = 0
    /\ dp_propagated' = FALSE
    /\ UNCHANGED handlers
    /\ UNCHANGED dpOthers

\* for handler in handlers: await handler(event), or run_in_executor
DP_HandlerStart ==
    /\ dp_pc = "dispatch"
    /\ dp_idx <= Len(HandlersFor(dp_message.event_type))
    /\ LET handler == HandlersFor(dp_message.event_type)[dp_idx]
       IN /\ invoked' = Append(invoked, handler.id)
          /\ dp_pc' = IF handler.is_async THEN "running_inline"
                      ELSE "running_executor"
    /\ UNCHANGED <<handlers, dp_message, dp_idx, handler_errors,
                   dp_propagated, dp_count>>
    /\ UNCHANGED dpOthers

\* HandlerDone with the try/except around the whole loop, not inside it
HandlerDone_outer_except(raised) ==
    /\ dp_pc' = IF raised THEN "done" ELSE "dispatch"
    /\ dp_idx' = dp_idx + 1
    /\ handler_errors' = IF raised THEN handler_errors + 1 ELSE handler_errors
    /\ UNCHANGED dp_propagated

\* the awaited handler ends, normally or with an exception: except Exception
\* logs it and the loop goes on
HandlerDone(raised) ==
    /\ dp_pc' = "dispatch"
    /\ dp_idx' = dp_idx + 1
    /\ handler_errors' = IF raised THEN handler_errors + 1 ELSE handler_errors
    /\ UNCHANGED dp_propagated

DP_HandlerEnd ==
    /\ dp_pc \in {"running_inline", "running_executor"}
    /\ \E raised \in BOOLEAN : HandlerDone(raised)
    /\ UNCHANGED <<handlers, dp_message, invoked, dp_count>>
    /\ UNCHANGED dpOthers

\* the loop is over: _process_message returns
DP_LoopEnd ==
    /\ dp_pc = "dispatch"
    /\ dp_idx > Len(HandlersFor(dp_message.event_type))
    /\ dp_pc' = "done"
    /\ UNCHANGED <<handlers, dp_message, dp_idx, invoked, handler_errors,
                   dp_propagated, dp_count>>
    /\ UNCHANGED dpOthers

NextDispatch ==
    DP_Register \/ DP_Receive \/ DP_HandlerStart \/ DP_HandlerEnd \/ DP_LoopEnd

SpecDispatch == InitDispatch /\ [][NextDispatch]_vars

(***************************************************************************)
(* users_service RedisService: _connect, is_connected, publish_event and    *)
(* the loop of subscribe_to_channel, called by a publisher and by the       *)
(* subscription loop.  The class holds no lock; its methods are plain       *)
(* functions that handlers may call from the worker pool, so the callers    *)
(* interleave statement by statement.  self.reconnect_attempts only feeds   *)
(* the log lines and is left out.                                           *)
(***************************************************************************)
MAX_RECONNECT_ATTEMPTS == 5
RECONNECT_DELAY == 5
MaxWait == 30

\* WaitTime without the cap of 30 seconds
WaitTime_uncapped(k) == RECONNECT_DELAY * (2 ^ k)

\* min(RECONNECT_DELAY * (2 ** attempt), 30)
WaitTime(k) ==
    IF RECONNECT_DELAY * (2 ^ k) < MaxWait
    THEN RECONNECT_DELAY * (2 ^ k) ELSE MaxWait

\* what a command on self.client can do: it fails while the broker is down;
\* on a connection that the broker dropped it either reconnects or raises
ClientOutcomes ==
    IF broker = "down" THEN {"raise"}
    ELSE IF client = "stale" THEN {"ok", "raise"}
    ELSE {"ok"}

ClientAfter(outcome) == IF outcome = "ok" THEN "live" ELSE "fresh"

\* the state after RedisService(): __init__ ran _connect, which connected or
\* gave up
InitConnector ==
    /\ RRIdle
    /\ CEIdle
    /\ GEIdle
    /\ DPIdle
    /\ GWIdle
    /\ LCIdle
    /\ UHIdle
    /\ CCIdle
    /\ \/ /\ broker = "up" /\ outages = 0
          /\ client = "live" /\ pubsub = "new" /\ same_conn = TRUE
       \/ /\ broker = "down" /\ outages = 1
          /\ client = "fresh" /\ pubsub = "none" /\ same_conn = FALSE
    /\ restored = FALSE
    /\ cn_pc = [p \in Procs |-> "idle"]
    /\ cn_stack = [p \in Procs |-> <<>>]
    /\ cn_ret = [p \in Procs |-> FALSE]
    /\ attempt = [p \in Procs |-> 0]
    /\ waits = [p \in Procs |-> <<>>]
    /\ pe_calls = 0
    /\ pe_connects = 0
    /\ pe_subscribed = FALSE
    /\ pe_first = FALSE
    /\ pe_result = "none"

\* caller p goes to label
Goto(p, label) == cn_pc' = [cn_pc EXCEPT ![p] = label]

\* caller p calls is_connected and comes back at label
CallIsConnected(p, label) ==
    /\ Goto(p, "is_connected")
    /\ cn_stack' = [cn_stack EXCEPT ![p] = <<label>> \o @]

\* caller p enters _connect: for attempt in range(MAX_RECONNECT_ATTEMPTS)
EnterConnect(p) ==
    /\ Goto(p, "connect_new")
    /\ attempt' = [attempt EXCEPT ![p] = 0]
    /\ waits' = [waits EXCEPT ![p] = <<>>]
    /\ pe_connects' = IF p = "publisher" THEN pe_connects + 1
                      ELSE pe_connects

\* caller p returns value to where its call came from
ReturnValue(p, value) ==
    /\ Goto(p, Head(cn_stack[p]))
    /\ cn_stack' = [cn_stack EXCEPT ![p] = Tail(@)]
    /\ cn_ret' = [cn_ret EXCEPT ![p] = value]

\* is_connected: False without a client or a pubsub; else client.ping(),
\* and on a connection error `return self._connect()`
IsConnected(p) ==
    /\ cn_pc[p] = "is_connected"
    /\ IF client = "none" \/ pubsub = "none"
       THEN /\ ReturnValue(p, FALSE)
            /\ UNCHANGED <<client, attempt, waits, pe_connects>>
       ELSE \E outcome \in ClientOutcomes :
              /\ client' = ClientAfter(outcome)
              /\ IF outcome = "ok"
                 THEN /\ ReturnValue(p, TRUE)
                      /\ UNCHANGED <<attempt, waits, pe_connects>>
                 ELSE /\ EnterConnect(p)
                      /\ UNCHANGED <<cn_stack, cn_ret>>
    /\ UNCHANGED <<broker, outages, restored, pubsub, same_conn, pe_calls,
                   pe_subscribed, pe_first, pe_result>>
    /\ UNCHANGED cnOthers

\* _connect: self.client = redis.Redis(...), which opens no connection yet
ConnectNew(p) ==
    /\ cn_pc[p] = "connect_new"
    /\ client' = "fresh"
    /\ same_conn' = FALSE
    /\ Goto(p, "connect_ping")
    /\ UNCHANGED <<broker, outages, restored, pubsub, cn_stack, cn_ret,
                   attempt, waits, pe_calls, pe_connects, pe_subscribed,
                   pe_first, pe_result>>
    /\ UNCHANGED cnOthers

\* _connect: ping; self.pubsub = self.client.pubsub(); return True -- or the
\* except branch, which computes wait_time and sleeps
ConnectPing(p) ==
    /\ cn_pc[p] = "connect_ping"
    /\ \E outcome \in ClientOutcomes :
          /\ client' = ClientAfter(outcome)
          /\ IF outcome = "ok"
             THEN /\ pubsub' = "new"
                  /\ same_conn' = TRUE
                  /\ ReturnValue(p, TRUE)
                  /\ UNCHANGED waits
             ELSE /\ waits' = [waits EXCEPT
                                 ![p] = Append(@, WaitTime(attempt[p]))]
                  /\ Goto(p, "connect_sleep")
                  /\ UNCHANGED <<pubsub, same_conn, cn_stack, cn_ret>>
    /\ UNCHANGED <<broker, outages, restored, attempt, pe_calls, pe_connects,
                   pe_subscribed, pe_first, pe_result>>
    /\ UNCHANGED cnOthers

\* the loop of _connect goes on or ends
ConnectLoop(p, limit) ==
    IF attempt[p] + 1 < limit
    THEN Goto(p, "connect_new") /\ UNCHANGED <<cn_stack, cn_ret>>
    ELSE ReturnValue(p, FALSE)

\* _connect: time.sleep(wait_time) is over; next attempt, or return False
ConnectSleep(p) ==
    /\ cn_pc[p] = "connect_sleep"
    /\ attempt' = [attempt EXCEPT ![p] = @ + 1]
    /\ ConnectLoop(p, MAX_RECONNECT_ATTEMPTS)
    /\ UNCHANGED <<broker, outages, restored, client, pubsub, same_conn,
                   waits, pe_calls, pe_connects, pe_subscribed, pe_first,
                   pe_result>>
    /\ UNCHANGED cnOthers

\* publish_event is called: `if not self.is_connected() ...`
PE_Call ==
    /\ cn_pc["publisher"] = "idle"
    /\ pe_calls < MaxPublishes
    /\ pe_calls' = pe_calls + 1
    /\ pe_connects' = 0
    /\ pe_result' = "none"
    /\ pe_subscribed' \in BOOLEAN
    /\ pe_first' = (restored /\ broker = "up")
    /\ CallIsConnected("publisher", "pe_after_check")
    /\ UNCHANGED <<broker, outages, restored, client, pubsub, same_conn,
                   cn_ret, attempt, waits>>
    /\ UNCHANGED cnOthers

\* publish_event returns
PE_Return(value) ==
    /\ Goto("publisher", "idle")
    /\ pe_result' = value
    /\ restored' = FALSE

\* PE_AfterCheck that gives up when is_connected said False
PE_AfterCheck_no_reconnect ==
    /\ cn_pc["publisher"] = "pe_after_check"
    /\ IF cn_ret["publisher"]
       THEN Goto("publisher", "pe_publish") /\ UNCHANGED <<pe_result, restored>>
       ELSE PE_Return("False")
    /\ UNCHANGED <<broker, outages, client, pubsub, same_conn, cn_stack,
                   cn_ret, attempt, waits, pe_calls, pe_connects,
                   pe_subscribed, pe_first>>
    /\ UNCHANGED cnOthers

\* `... and not self._connect()`: evaluated when is_connected said False
PE_AfterCheck ==
    /\ cn_pc["publisher"] = "pe_after_check"
    /\ IF cn_ret["publisher"]
       THEN /\ Goto("publisher", "pe_publish")
            /\ UNCHANGED <<cn_stack, attempt, waits, pe_connects>>
       ELSE /\ EnterConnect("publisher")
            /\ cn_stack' = [cn_stack EXCEPT
                              !["publisher"] = <<"pe_after_connect">> \o @]
    /\ UNCHANGED <<broker, outages, restored, client, pubsub, same_conn,
                   cn_ret, pe_calls, pe_subscribed, pe_first, pe_result>>
    /\ UNCHANGED cnOthers

\* the second _connect failed too: return False; else go on to publish
PE_AfterConnect ==
    /\ cn_pc["publisher"] = "pe_after_connect"
    /\ IF cn_ret["publisher"]
       THEN Goto("publisher", "pe_publish") /\ UNCHANGED <<pe_result, restored>>
       ELSE PE_Return("False")
    /\ UNCHANGED <<broker, outages, client, pubsub, same_conn, cn_stack,
                   cn_ret, attempt, waits, pe_calls, pe_connects,
                   pe_subscribed, pe_first>>
    /\ UNCHANGED cnOthers

\* result = self.client.publish(...): True if result > 0, else False; on a
\* RedisError `self._connect()` for next time, then return False
PE_Publish ==
    /\ cn_pc["publisher"] = "pe_publish"
    /\ \E outcome \in ClientOutcomes :
          /\ client' = ClientAfter(outcome)
          /\ IF outcome = "ok"
             THEN /\ PE_Return(IF pe_subscribed THEN "True" ELSE "False")
                  /\ UNCHANGED <<cn_stack, attempt, waits, pe_connects>>
             ELSE /\ EnterConnect("publisher")
                  /\ cn_stack' = [cn_stack EXCEPT
                                    !["publisher"] = <<"pe_after_failure">> \o @]
                  /\ UNCHANGED <<pe_result, restored>>
    /\ UNCHANGED <<broker, outages, pubsub, same_conn, cn_ret, pe_calls,
                   pe_subscribed, pe_first>>
    /\ UNCHANGED cnOthers

\* after the reconnect that follows a failed publish: return False
PE_AfterFailure ==
    /\ cn_pc["publisher"] = "pe_after_failure"
    /\ PE_Return("False")
    /\ UNCHANGED <<broker, outages, client, pubsub, same_conn, cn_stack,
                   cn_ret, attempt, waits, pe_calls, pe_connects,
                   pe_subscribed, pe_first>>
    /\ UNCHANGED cnOthers

\* subscribe_to_channel is started: self.running = True; while self.running:
\* if not self.is_connected()
SL_Start ==
    /\ cn_pc["listener"] \in {"idle", "sl_top"}
    /\ CallIsConnected("listener", "sl_after_check")
    /\ UNCHANGED <<broker, outages, restored, client, pubsub, same_conn,
                   cn_ret, attempt, waits, pe_calls, pe_connects,
                   pe_subscribed, pe_first, pe_result>>
    /\ UNCHANGED cnOthers

\* not connected: `if not self._connect()`
SL_AfterCheck ==
    /\ cn_pc["listener"] = "sl_after_check"
    /\ IF cn_ret["listener"]
       THEN /\ Goto("listener", "sl_subscribe")
            /\ UNCHANGED <<cn_stack, attempt, waits, pe_connects>>
       ELSE /\ EnterConnect("listener")
            /\ cn_stack' = [cn_stack EXCEPT
                              !["listener"] = <<"sl_after_connect">> \o @]
    /\ UNCHANGED <<broker, outages, restored, client, pubsub, same_conn,
                   cn_ret, pe_calls, pe_subscribed, pe_first, pe_result>>
    /\ UNCHANGED cnOthers

\* reconnection failed: sleep RECONNECT_DELAY and continue; else subscribe
SL_AfterConnect ==
    /\ cn_pc["listener"] = "sl_after_connect"
    /\ Goto("listener", IF cn_ret["listener"] THEN "sl_subscribe" ELSE "sl_top")
    /\ UNCHANGED <<broker, outages, restored, client, pubsub, same_conn,
                   cn_stack, cn_ret, attempt, waits, pe_calls, pe_connects,
                   pe_subscribed, pe_first, pe_result>>
    /\ UNCHANGED cnOthers

\* self.pubsub.subscribe(channel) and the wait for its confirmation; without
\* the broker either raises or brings nothing, and the outer loop starts over
SL_Subscribe ==
    /\ cn_pc["listener"] = "sl_subscribe"
    /\ IF broker = "up" /\ pubsub # "none"
       THEN pubsub' = "subscribed" /\ Goto("listener", "sl_poll")
       ELSE UNCHANGED pubsub /\ Goto("listener", "sl_top")
    /\ UNCHANGED <<broker, outages, restored, client, same_conn, cn_stack,
                   cn_ret, attempt, waits, pe_calls, pe_connects,
                   pe_subscribed, pe_first, pe_result>>
    /\ UNCHANGED cnOthers

\* self.pubsub.get_message(timeout=1.0): a connection error breaks out of
\* the inner loop; else (a message, or None -- also on a pubsub that was
\* never subscribed) the loop checks is_connected
SL_Poll ==
    /\ cn_pc["listener"] = "sl_poll"
    /\ IF pubsub \in {"stale", "none"}
       THEN /\ Goto("listener", "sl_top")
            /\ UNCHANGED cn_stack
       ELSE CallIsConnected("listener", "sl_after_poll")
    /\ UNCHANGED <<broker, outages, restored, client, pubsub, same_conn,
                   cn_ret, attempt, waits, pe_calls, pe_connects,
                   pe_subscribed, pe_first, pe_result>>
    /\ UNCHANGED cnOthers

\* `if not self.is_connected(): break`, else poll again
SL_AfterPoll ==
    /\ cn_pc["listener"] = "sl_after_poll"
    /\ Goto("listener", IF cn_ret["listener"] THEN "sl_poll" ELSE "sl_top")
    /\ UNCHANGED <<broker, outages, restored, client, pubsub, same_conn,
                   cn_stack, cn_ret, attempt, waits, pe_calls, pe_connects,
                   pe_subscribed, pe_first, pe_result>>
    /\ UNCHANGED cnOthers

\* the broker becomes unreachable: open connections are dropped
BrokerDown ==
    /\ broker = "up"
    /\ outages < MaxOutages
    /\ outages' = outages + 1
    /\ broker' = "down"
    /\ client' = IF client = "live" THEN "stale" ELSE client
    /\ pubsub' = IF pubsub = "subscribed" THEN "stale" ELSE pubsub
    /\ pe_first' = FALSE
    /\ UNCHANGED <<restored, same_conn, cn_pc, cn_stack, cn_ret, attempt,
                   waits, pe_calls, pe_connects, pe_subscribed, pe_result>>
    /\ UNCHANGED cnOthers

\* the broker is restored
BrokerUp ==
    /\ broker = "down"
    /\ broker' = "up"
    /\ restored' = TRUE
    /\ UNCHANGED <<outages, client, pubsub, same_conn, cn_pc, cn_stack,
                   cn_ret, attempt, waits, pe_calls, pe_connects,
                   pe_subscribed, pe_first, pe_result>>
    /\ UNCHANGED cnOthers

NextConnector ==
    \/ \E p \in Procs :
          IsConnected(p) \/ ConnectNew(p) \/ ConnectPing(p) \/ ConnectSleep(p)
    \/ PE_Call \/ PE_AfterCheck \/ PE_AfterConnect \/ PE_Publish
    \/ PE_AfterFailure
    \/ SL_Start \/ SL_AfterCheck \/ SL_AfterConnect \/ SL_Subscribe
    \/ SL_Poll \/ SL_AfterPoll
    \/ BrokerDown \/ BrokerUp

SpecConnector == InitConnector /\ [][NextConnector]_vars

(***************************************************************************)
(* api_gateway: the publishing endpoints, the store of event responses      *)
(* and the health check.                                                    *)
(***************************************************************************)
\* what RedisService.is_connected computes when it is awaited: a client
\* exists and its ping succeeds
RedisService_is_connected == gw_client # "none" /\ gw_broker = "up"

\* response bodies a service may send, and the data of a response message
ResponseBodies ==
    {[success |-> TRUE, message |-> "created"],
     [success |-> FALSE, message |-> "rejected"]}

ResponseMessages ==
    {[valid |-> TRUE, correlation_id |-> c, has_response |-> TRUE,
      response |-> b, type |-> "event_creation_response"] :
        c \in CorrelationIds \cup {MissingCid}, b \in ResponseBodies}
    \cup {[valid |-> v, correlation_id |-> c, has_response |-> FALSE,
           response |-> [success |-> FALSE, message |-> ""], type |-> ""] :
            v \in BOOLEAN, c \in {1, MissingCid}}

\* the gateway after start-up: the _connect task found the broker or not
InitGateway ==
    /\ RRIdle
    /\ CEIdle
    /\ GEIdle
    /\ DPIdle
    /\ CNIdle
    /\ LCIdle
    /\ UHIdle
    /\ CCIdle
    /\ gw_broker \in {"up", "down"}
    /\ gw_client = IF gw_broker = "up" THEN "client" ELSE "none"
    /\ gw_handed = 0
    /\ gw_call = NoCall
    /\ gw_health = NoHealth
    /\ event_responses = [c \in CorrelationIds |-> Absent]
    /\ gw_status = NoStatus

\* register_user: publish, 503 if not published, else 202 "queued".  The
\* coroutine that would hand the envelope to the broker is never awaited,
\* so the broker receives nothing.
GW_RegisterUser ==
    /\ LET result == EventService_publish_event("users_events",
                        "user_registration_requested", "user_data")
       IN gw_call' = [api |-> "register_user",
                      published |-> result.published,
                      error |-> result.error,
                      http |-> IF ~result.published THEN 503 ELSE 202]
    /\ UNCHANGED <<gw_broker, gw_client, gw_handed, gw_health,
                   event_responses, gw_status>>
    /\ UNCHANGED gwOthers

\* health_check: "connected" if redis_service.is_connected() is truthy --
\* the call is not awaited
GW_Health ==
    /\ gw_health' =
          [redis |-> IF Truthy(Coroutine) THEN "connected" ELSE "disconnected",
           status |-> IF Truthy(Coroutine) THEN "healthy" ELSE "unhealthy",
           reachable |-> RedisService_is_connected]
    /\ UNCHANGED <<gw_broker, gw_client, gw_handed, gw_call, event_responses,
                   gw_status>>
    /\ UNCHANGED gwOthers

\* event_responses[correlation_id] = {...}
StoreResponse(m) ==
    [event_responses EXCEPT
       ![m.correlation_id] = [stored |-> TRUE,
                              success |-> m.response.success,
                              message |-> m.response.message,
                              type |-> m.type]]

\* process_event_response(message): json.loads, `if correlation_id and
\* response_data:` store; any exception is printed
GW_ProcessEventResponse ==
    /\ \E m \in ResponseMessages :
          event_responses' =
             IF m.valid /\ m.correlation_id \in CorrelationIds
                  /\ m.has_response
             THEN StoreResponse(m)
             ELSE event_responses
    /\ UNCHANGED <<gw_broker, gw_client, gw_handed, gw_call, gw_health,
                   gw_status>>
    /\ UNCHANGED gwOthers

\* get_event_status(event_id)
get_event_status(event_id) ==
    IF event_responses[event_id].stored
    THEN [event_id |-> event_id, status |-> "completed",
          success |-> event_responses[event_id].success,
          message |-> event_responses[event_id].message]
    ELSE [event_id |-> event_id, status |-> "processing",
          success |-> FALSE, message |-> "Event still being processed"]

GW_GetEventStatus ==
    /\ \E event_id \in CorrelationIds :
          gw_status' = get_event_status(event_id)
    /\ UNCHANGED <<gw_broker, gw_client, gw_handed, gw_call, gw_health,
                   event_responses>>
    /\ UNCHANGED gwOthers

\* the gateway's broker goes away or comes back
GW_BrokerFlip ==
    /\ gw_broker' = IF gw_broker = "up" THEN "down" ELSE "up"
    /\ UNCHANGED <<gw_client, gw_handed, gw_call, gw_health, event_responses,
                   gw_status>>
    /\ UNCHANGED gwOthers

NextGateway ==
    \/ GW_RegisterUser \/ GW_Health \/ GW_ProcessEventResponse
    \/ GW_GetEventStatus \/ GW_BrokerFlip

SpecGateway == InitGateway /\ [][NextGateway]_vars

\* requests keep being served and responses keep being processed
SpecGatewayFair ==
    InitGateway /\ [][NextGateway]_vars
    /\ WF_vars(GW_GetEventStatus) /\ WF_vars(GW_ProcessEventResponse)
    /\ WF_vars(GW_RegisterUser) /\ WF_vars(GW_Health)

(***************************************************************************)
(* users_service main.py: start-events, stop-events, events_listener and    *)
(* shutdown_event, all on the event loop, where is_connected and _connect   *)
(* run without interruption; api_gateway main.py: the response listener     *)
(* thread of startup_event and shutdown_event.                              *)
(***************************************************************************)
\* what the lifecycle actions leave alone
cnCallers == <<outages, restored, cn_pc, cn_stack, cn_ret, attempt, waits,
               pe_calls, pe_connects, pe_subscribed, pe_first, pe_result>>
lcRest == <<ceVars, rrVars, geVars, dpVars, gwVars, uhVars, ccVars>>

\* one uninterrupted is_connected(): False without client or pubsub; the
\* ping; on a connection error _connect, which replaces client and, when it
\* reaches the broker, pubsub
IsConnectedOutcomes ==
    IF client = "none" \/ pubsub = "none"
    THEN {[result |-> FALSE, client |-> client, pubsub |-> pubsub,
           same_conn |-> same_conn]}
    ELSE {IF outcome = "ok"
          THEN [result |-> TRUE, client |-> "live", pubsub |-> pubsub,
                same_conn |-> same_conn]
          ELSE IF broker = "up"
          THEN [result |-> TRUE, client |-> "live", pubsub |-> "new",
                same_conn |-> TRUE]
          ELSE [result |-> FALSE, client |-> "fresh", pubsub |-> pubsub,
                same_conn |-> FALSE] : outcome \in ClientOutcomes}

\* the users service after import (RedisService() connected or gave up) and
\* the gateway before its start-up
InitLifecycle ==
    /\ RRIdle
    /\ CEIdle
    /\ GEIdle
    /\ DPIdle
    /\ GWIdle
    /\ LCIdle
    /\ UHIdle
    /\ CCIdle
    /\ \/ /\ broker = "up" /\ outages = 0
          /\ client = "live" /\ pubsub = "new" /\ same_conn = TRUE
       \/ /\ broker = "down" /\ outages = 1
          /\ client = "fresh" /\ pubsub = "none" /\ same_conn = FALSE
    /\ restored = FALSE
    /\ cn_pc = [p \in Procs |-> "idle"]
    /\ cn_stack = [p \in Procs |-> <<>>]
    /\ cn_ret = [p \in Procs |-> FALSE]
    /\ attempt = [p \in Procs |-> 0]
    /\ waits = [p \in Procs |-> <<>>]
    /\ pe_calls = 0
    /\ pe_connects = 0
    /\ pe_subscribed = FALSE
    /\ pe_first = FALSE
    /\ pe_result = "none"

\* a cancelled task is resumed with CancelledError before the loop serves a
\* later request
NoPendingCancel == \A i \in TaskIds : tasks[i] # "cancelling"

\* POST /start-events while the flag is set: nothing is started
LC_StartWhileRunning ==
    /\ us_shutdown = "no"
    /\ NoPendingCancel
    /\ events_listener_running
    /\ lc_answer' = "info"
    /\ UNCHANGED <<events_listener_running, events_listener_task, tasks,
                   us_shutdown, gl_thread, gl_shutdown, gl_polled_after>>
    /\ UNCHANGED <<broker, client, pubsub, same_conn>>
    /\ UNCHANGED <<cnCallers, lcRest>>

\* POST /start-events: is_connected, create_task, flag, pubsub.subscribe
LC_Start ==
    /\ us_shutdown = "no"
    /\ NoPendingCancel
    /\ ~events_listener_running
    /\ \E o \in IsConnectedOutcomes :
          /\ client' = o.client
          /\ same_conn' = o.same_conn
          /\ IF ~o.result
             THEN /\ lc_answer' = "error"
                  /\ pubsub' = o.pubsub
                  /\ UNCHANGED <<events_listener_running,
                                 events_listener_task, tasks>>
             ELSE /\ \E i \in TaskIds :
                        /\ tasks[i] = "unborn"
                        /\ \A k \in TaskIds : k < i => tasks[k] # "unborn"
                        /\ tasks' = [tasks EXCEPT ![i] = "running"]
                        /\ events_listener_task' = i
                  /\ events_listener_running' = TRUE
                  /\ pubsub' = "subscribed"
                  /\ lc_answer' = "success"
    /\ UNCHANGED <<us_shutdown, gl_thread, gl_shutdown, gl_polled_after>>
    /\ UNCHANGED broker
    /\ UNCHANGED <<cnCallers, lcRest>>

\* POST /stop-events: cancel the task, clear the flag and the task
LC_Stop ==
    /\ us_shutdown = "no"
    /\ NoPendingCancel
    /\ IF events_listener_task # 0
       THEN /\ tasks' = [tasks EXCEPT ![events_listener_task] =
                            IF @ = "running" THEN "cancelling" ELSE @]
            /\ events_listener_running' = FALSE
            /\ events_listener_task' = 0
       ELSE UNCHANGED <<tasks, events_listener_running, events_listener_task>>
    /\ lc_answer' = "stopped"
    /\ UNCHANGED <<us_shutdown, gl_thread, gl_shutdown, gl_polled_after>>
    /\ UNCHANGED <<broker, client, pubsub, same_conn>>
    /\ UNCHANGED <<cnCallers, lcRest>>

\* one round of events_listener: is_connected, then get_message on
\* redis_svc.pubsub (a handle that lost its connection resubscribes its
\* channels when it reconnects), _process_message, sleep
EL_Iterate ==
    /\ \E i \in TaskIds : tasks[i] = "running"
    /\ \E o \in IsConnectedOutcomes :
          /\ client' = o.client
          /\ same_conn' = o.same_conn
          /\ pubsub' = IF o.result /\ o.pubsub = "stale" THEN "subscribed"
                       ELSE o.pubsub
    /\ UNCHANGED lcVars
    /\ UNCHANGED broker
    /\ UNCHANGED <<cnCallers, lcRest>>

\* the cancelled task gets CancelledError at its await: except
\* asyncio.CancelledError, and the coroutine ends
EL_Cancelled ==
    /\ \E i \in TaskIds :
          /\ tasks[i] = "cancelling"
          /\ tasks' = [tasks EXCEPT ![i] = "ended"]
    /\ UNCHANGED <<events_listener_running, events_listener_task, lc_answer,
                   us_shutdown, gl_thread, gl_shutdown, gl_polled_after>>
    /\ UNCHANGED <<broker, client, pubsub, same_conn>>
    /\ UNCHANGED <<cnCallers, lcRest>>

\* shutdown_event of the users service: cancel the task, if any, and await it
US_ShutdownBegin ==
    /\ us_shutdown = "no"
    /\ NoPendingCancel
    /\ IF events_listener_task # 0
       THEN /\ tasks' = [tasks EXCEPT ![events_listener_task] =
                            IF @ = "running" THEN "cancelling" ELSE @]
            /\ us_shutdown' = "awaiting"
       ELSE /\ us_shutdown' = "done"
            /\ UNCHANGED tasks
    /\ UNCHANGED <<events_listener_running, events_listener_task, lc_answer,
                   gl_thread, gl_shutdown, gl_polled_after>>
    /\ UNCHANGED <<broker, client, pubsub, same_conn>>
    /\ UNCHANGED <<cnCallers, lcRest>>

\* `await service_state["events_listener_task"]` returns
US_ShutdownEnd ==
    /\ us_shutdown = "awaiting"
    /\ tasks[events_listener_task] = "ended"
    /\ us_shutdown' = "done"
    /\ UNCHANGED <<events_listener_running, events_listener_task, tasks,
                   lc_answer, gl_thread, gl_shutdown, gl_polled_after>>
    /\ UNCHANGED <<broker, client, pubsub, same_conn>>
    /\ UNCHANGED <<cnCallers, lcRest>>

\* startup_event of the gateway: `if ... is_connected()` sees a coroutine
\* object; the listener is handed to a pool thread, where it subscribes and
\* listens, or ends on an error of the client
GL_Startup ==
    /\ gl_thread = "none"
    /\ IF Truthy(Coroutine)
       THEN gl_thread' \in {"listening", "dead"}
       ELSE gl_thread' = "dead"
    /\ UNCHANGED <<events_listener_running, events_listener_task, tasks,
                   lc_answer, us_shutdown, gl_shutdown, gl_polled_after>>
    /\ UNCHANGED <<broker, client, pubsub, same_conn>>
    /\ UNCHANGED <<cnCallers, lcRest>>

\* for message in pubsub.listen(): the thread takes another message
GL_Listen ==
    /\ gl_thread = "listening"
    /\ gl_polled_after' = gl_shutdown
    /\ UNCHANGED <<events_listener_running, events_listener_task, tasks,
                   lc_answer, us_shutdown, gl_thread, gl_shutdown>>
    /\ UNCHANGED <<broker, client, pubsub, same_conn>>
    /\ UNCHANGED <<cnCallers, lcRest>>

\* shutdown_event of the gateway: a print
GL_Shutdown ==
    /\ gl_thread # "none"
    /\ ~gl_shutdown
    /\ gl_shutdown' = TRUE
    /\ UNCHANGED <<events_listener_running, events_listener_task, tasks,
                   lc_answer, us_shutdown, gl_thread, gl_polled_after>>
    /\ UNCHANGED <<broker, client, pubsub, same_conn>>
    /\ UNCHANGED <<cnCallers, lcRest>>

NextLifecycle ==
    \/ LC_StartWhileRunning \/ LC_Start \/ LC_Stop
    \/ EL_Iterate \/ EL_Cancelled
    \/ US_ShutdownBegin \/ US_ShutdownEnd
    \/ GL_Startup \/ GL_Listen \/ GL_Shutdown
    \/ BrokerDown \/ BrokerUp

SpecLifecycle == InitLifecycle /\ [][NextLifecycle]_vars

(***************************************************************************)
(* users_service UserEventHandler: the handlers registered at start-up and  *)
(* the responses they publish.                                              *)
(***************************************************************************)
\* setup_event_handlers: type string -> handler
RegisteredHandlers ==
    [user_register_requested |-> "handle_registration",
     user_login_requested |-> "handle_login",
     user_delete_requested |-> "handle_delete"]

\* the types the gateway's users_router publishes on users_events
GatewayUserEventTypes ==
    {"user_registration_requested", "user_login_requested"}

\* self.handlers.get(event_type, []) on the registry above
HandlerFor(ty) ==
    IF ty \in DOMAIN RegisteredHandlers THEN RegisteredHandlers[ty]
    ELSE "none"

\* the ways through a handler: a validation failure, a rejection by the
\* data (user exists, bad credentials, not found), success, or an exception
\* of the database
HandlerPaths == {"invalid", "rejected", "ok", "exception"}

ResponseType(handler) ==
    CASE handler = "handle_registration" -> "user_register_response"
      [] handler = "handle_login" -> "user_login_response"
      [] OTHER -> "user_delete_response"

InitUserHandler ==
    /\ RRIdle
    /\ CEIdle
    /\ GEIdle
    /\ DPIdle
    /\ CNIdle
    /\ GWIdle
    /\ LCIdle
    /\ UHIdle
    /\ CCIdle

\* _process_message looks the type up and awaits the handler, which runs up
\* to its first response (or to the exception of the database)
UH_Receive ==
    /\ uh_pc \in {"idle", "done"}
    /\ uh_count < MaxUserEvents
    /\ uh_count' = uh_count + 1
    /\ \E ty \in GatewayUserEventTypes \cup DOMAIN RegisteredHandlers,
          path \in HandlerPaths :
          /\ uh_event' = [type |-> ty, path |-> path]
          /\ uh_handler' = HandlerFor(ty)
          /\ uh_pc' = IF HandlerFor(ty) = "none" THEN "done"
                      ELSE IF path = "exception" THEN "except"
                      ELSE "respond"
    /\ uh_responses' = <<>>
    /\ uh_raised' = FALSE
    /\ UNCHANGED uhOthers

\* `await redis_service.publish_event(...)`: publish_event is a plain
\* function; it publishes (or cannot) and returns a bool, and awaiting the
\* bool raises TypeError, which _publish_response logs and raises again
PublishResponse(success, delivered) ==
    uh_responses' =
        IF delivered
        THEN Append(uh_responses,
                    [type |-> ResponseType(uh_handler), success |-> success])
        ELSE uh_responses

\* the response of the path taken, inside the handler's try
UH_Respond ==
    /\ uh_pc = "respond"
    /\ \E delivered \in BOOLEAN :
          PublishResponse(uh_event.path = "ok", delivered)
    /\ uh_pc' = "except"
    /\ UNCHANGED <<uh_event, uh_handler, uh_raised, uh_count>>
    /\ UNCHANGED uhOthers

\* except Exception: publish the "Error interno del servidor" response; the
\* TypeError of this await leaves the handler
UH_Except ==
    /\ uh_pc = "except"
    /\ \E delivered \in BOOLEAN : PublishResponse(FALSE, delivered)
    /\ uh_raised' = TRUE
    /\ uh_pc' = "done"
    /\ UNCHANGED <<uh_event, uh_handler, uh_count>>
    /\ UNCHANGED uhOthers

NextUserHandler == UH_Receive \/ UH_Respond \/ UH_Except

SpecUserHandler == InitUserHandler /\ [][NextUserHandler]_vars

(***************************************************************************)
(* create_event served for two requests of the same user at once: every    *)
(* await is a point where the event loop may run the other request.        *)
(***************************************************************************)
\* request bodies with naive datetimes
NaiveRequests == {d \in EventCreateRequest : ~d.start_time.aware}

\* the user has no event or one event
ShortStoredLists ==
    {<<>>} \cup {<<WithId(f, 1)>> : f \in StoredEventForms}

InitConcurrentCreate ==
    /\ RRIdle
    /\ CEIdle
    /\ GEIdle
    /\ DPIdle
    /\ CNIdle
    /\ GWIdle
    /\ LCIdle
    /\ UHIdle
    /\ cc_store \in ShortStoredLists
    /\ cc_pc = [r \in Requests |-> "idle"]
    /\ cc_data = [r \in Requests |-> NoRequest]
    /\ cc_response = [r \in Requests |-> NoResponse]
    /\ cc_before = [r \in Requests |-> 0]
    /\ cc_result = [r \in Requests |-> "none"]
    /\ cc_publish_calls = <<>>

\* POST /api/v1/events arrives
CC_Request(r) ==
    /\ cc_pc[r] = "idle"
    /\ \E d \in NaiveRequests : cc_data' = [cc_data EXCEPT ![r] = d]
    /\ cc_pc' = [cc_pc EXCEPT ![r] = "lookup"]
    /\ UNCHANGED <<cc_store, cc_response, cc_before, cc_result,
                   cc_publish_calls>>
    /\ UNCHANGED ccOthers

\* await make_events_service_request(...): the request is suspended and
\* resumes with an answer, or with HTTPException
CC_Lookup(r) ==
    /\ cc_pc[r] = "lookup"
    /\ \E resp \in {[kind |-> "response", status_code |-> 200,
                     events |-> cc_store],
                    [kind |-> "response", status_code |-> 500,
                     events |-> <<>>],
                    [kind |-> "raised", status_code |-> 0,
                     events |-> <<>>]} :
          cc_response' = [cc_response EXCEPT ![r] = resp]
    /\ cc_before' = [cc_before EXCEPT ![r] = Len(cc_publish_calls)]
    /\ cc_pc' = [cc_pc EXCEPT ![r] = "check"]
    /\ UNCHANGED <<cc_store, cc_data, cc_result, cc_publish_calls>>
    /\ UNCHANGED ccOthers

\* step 2 of create_event for request r
CC_Publish(r) ==
    LET payload == [start_time |-> ReplaceUtc(cc_data[r].start_time),
                    end_time |-> ReplaceUtc(cc_data[r].end_time)]
        result == EventService_publish_event("events_events",
                                             "event_creation_requested", payload)
    IN /\ cc_publish_calls' = Append(cc_publish_calls,
                                     [request |-> r, payload |-> payload])
       /\ cc_result' = [cc_result EXCEPT ![r] =
                            IF ~result.published THEN "http_503" ELSE "success"]

\* the rest of create_event runs without suspension: no lock, no second
\* lookup, no reservation is made between the lookup and the publication
CC_Check(r) ==
    /\ cc_pc[r] = "check"
    /\ cc_pc' = [cc_pc EXCEPT ![r] = "done"]
    /\ IF cc_response[r].kind = "raised"
       THEN /\ cc_result' = [cc_result EXCEPT ![r] = "error"]
            /\ UNCHANGED cc_publish_calls
       ELSE IF cc_response[r].status_code = 200
               /\ ConflictLoop(cc_data[r], cc_response[r].events) # <<>>
            THEN /\ cc_result' = [cc_result EXCEPT ![r] = "error"]
                 /\ UNCHANGED cc_publish_calls
            ELSE CC_Publish(r)
    /\ UNCHANGED <<cc_store, cc_data, cc_response, cc_before>>
    /\ UNCHANGED ccOthers

NextConcurrentCreate ==
    \E r \in Requests : CC_Request(r) \/ CC_Lookup(r) \/ CC_Check(r)

SpecConcurrentCreate == InitConcurrentCreate /\ [][NextConcurrentCreate]_vars

(***************************************************************************)
(* Claims about create_event.                                              *)
(***************************************************************************)
CE_LookedUp ==
    ce_pc = "done" /\ events_response.kind = "response"
    /\ events_response.status_code = 200

\* the instants of the candidate and of an existing event, as compared
CandStart == Instant(AsUtc(event_data.start_time))
CandEnd == Instant(AsUtc(event_data.end_time))
ExStart(event) == Instant(AsUtc(FromIsoformat(event.start_time)))
ExEnd(event) == Instant(AsUtc(FromIsoformat(event.end_time)))

Flagged(event) ==
    \E j \in 1..Len(conflicting_events) : conflicting_events[j].id = event.id

FoundConflict ==
    \E i \in 1..Len(events_response.events) :
        LET event == events_response.events[i]
        IN event.has_times
           /\ has_overlap(AsUtc(event_data.start_time),
                          AsUtc(event_data.end_time), event)

\* C1: when the conflict check of create_event finds an overlapping existing
\* event, the endpoint answers 'error' with the conflicting events listed and
\* event_service.publish_event is never called for the request.
C1_ConflictRejectsWithoutPublish ==
    (CE_LookedUp /\ FoundConflict) =>
        /\ ce_result = "error"
        /\ conflicting_events # <<>>
        /\ \A j \in 1..Len(conflicting_events) :
              \E i \in 1..Len(events_response.events) :
                  conflicting_events[j] = events_response.events[i]
        /\ publish_calls = <<>>

C1_Witness ==
    CE_LookedUp /\ FoundConflict /\ ce_result = "error"
    /\ Len(conflicting_events) = 2

\* C2: for a candidate [s,e) with s<e and an existing event [s',e') with
\* s'<e', the three-condition check flags the event iff s < e' and e > s';
\* boundary-touching events are not flagged, and conflicting_events holds
\* exactly the flagged events, in the order of the lookup.
C2_FlaggedIffOverlap ==
    (CE_LookedUp /\ CandStart < CandEnd) =>
        /\ \A i \in 1..Len(events_response.events) :
              LET event == events_response.events[i]
              IN (event.has_times /\ ExStart(event) < ExEnd(event)) =>
                    (Flagged(event) <=>
                        (CandStart < ExEnd(event) /\ CandEnd > ExStart(event)))
        /\ \A j \in 1..Len(conflicting_events) :
              \E i \in 1..Len(events_response.events) :
                  conflicting_events[j] = events_response.events[i]
        /\ \A j, k \in 1..Len(conflicting_events) :
              j < k => conflicting_events[j].id < conflicting_events[k].id

\* an event ending exactly at the candidate's start is left out while an
\* overlapping one is flagged
C2_Witness ==
    /\ CE_LookedUp /\ CandStart < CandEnd
    /\ Len(events_response.events) = 2
    /\ \E i, k \in 1..2 :
          LET touching == events_response.events[i]
              inside == events_response.events[k]
          IN /\ touching.has_times /\ inside.has_times
             /\ ExStart(touching) < ExEnd(touching)
             /\ ExEnd(touching) = CandStart
             /\ ~Flagged(touching)
             /\ ExStart(inside) < CandEnd /\ ExEnd(inside) > CandStart
             /\ Flagged(inside)

(***************************************************************************)
(* Claims about the request/reply waiters.                                 *)
(***************************************************************************)
\* what the waiter in use accepts as the response to its request
Matches(m) ==
    IF rr_api = "list_user_groups"
    THEN LugMatches(m)
    ELSE m.valid /\ m.correlation_id = correlation_id

MatchArrived == \E i \in 1..Len(arrived) : Matches(arrived[i])

FirstMatch ==
    arrived[CHOOSE i \in 1..Len(arrived) :
                /\ Matches(arrived[i])
                /\ \A k \in 1..(i - 1) : ~Matches(arrived[k])]

C4_OnlyOwnCorrelationId ==
    (rr_pc = "done" /\ returned # NoMsg) =>
        returned.correlation_id = correlation_id

\* C5: every request that list_user_groups publishes on 'groups' is
\* published while the caller is subscribed to the response channel.
C5_PublishAfterSubscribe ==
    \A i \in 1..Len(groups_channel) : groups_channel[i].subscribed

Waiting == rr_pc \in {"lug_loop", "lug_poll", "lug_after", "wfr_start", "wfr_wait"}

C6_NotBeforeDeadline ==
    (rr_pc = "done" /\ rr_outcome = "no_response" /\ ~MatchArrived) =>
        (returned = NoMsg /\ clock >= Timeout)

MemberIdsOf(entries) == [k \in 1..Len(entries) |-> entries[k].member_id]

CountFor(entries, member_id) ==
    Cardinality({k \in 1..Len(entries) : entries[k].member_id = member_id})

CreationLoopOver ==
    ge_pc = "register"
    \/ (ge_pc = "done" /\ ge_result \in {"success", "partial_success", "failure"})

\* C8: the creation loop of create_group_event issues exactly one creation
\* request per member, in member order, whatever the answers are, and each
\* member ends in exactly one of created_events and failed_members (the
\* latter with a reason), so the two lists together are as long as the
\* member list.
C8_EveryMemberAttemptedOnce ==
    /\ (ge_pc = "create" /\ members_bound) =>
          attempts = SubSeq(group_members, 1, member_idx - 1)
    /\ CreationLoopOver =>
          /\ attempts = group_members
          /\ Len(created_events) + Len(failed_members) = Len(group_members)
          /\ \A i \in 1..Len(group_members) :
                CountFor(created_events, group_members[i])
                  + CountFor(failed_members, group_members[i]) = 1
          /\ \A k \in 1..Len(failed_members) : failed_members[k].error # ""

\* three members, two created and one failed
C8_Witness ==
    /\ CreationLoopOver
    /\ Len(group_members) = 3
    /\ Len(created_events) = 2
    /\ Len(failed_members) = 1
    /\ failed_members[1].member_id = group_members[2]
    /\ failed_members[1].error = "str(e)"

\* C9: the status answered is 'success' when every creation succeeded,
\* 'partial_success' when some succeeded and some failed, and 'failure'
\* when none succeeded (stated for a group with at least one member).
C9_AggregateStatus ==
    (ge_pc = "done" /\ CreationLoopOver /\ Len(group_members) > 0) =>
        ge_result = IF failed_members = <<>> THEN "success"
                    ELSE IF created_events # <<>> THEN "partial_success"
                    ELSE "failure"

(***************************************************************************)
(* Claims about the handler dispatch.                                      *)
(***************************************************************************)
WellFormed(m) == m.mtype = "message" /\ m.data = "event" /\ m.event_type # ""

RegisteredIds(ty) ==
    [k \in 1..Len(HandlersFor(ty)) |-> HandlersFor(ty)[k].id]

\* C10: for a well-formed message of type T, _process_message invokes the
\* handlers registered for T, each registration once and in registration
\* order, synchronous or not; a handler's exception neither stops the
\* remaining handlers nor leaves _process_message.
C10_AllHandlersInvokedInOrder ==
    /\ (dp_pc = "done" /\ WellFormed(dp_message)) =>
          /\ invoked = RegisteredIds(dp_message.event_type)
          /\ ~dp_propagated
    /\ (dp_pc \in {"dispatch", "running_inline", "running_executor"}) =>
          /\ WellFormed(dp_message)
          /\ \A k \in 1..Len(invoked) :
                invoked[k] = RegisteredIds(dp_message.event_type)[k]

\* a plain and a coroutine handler were both invoked although the first
\* one raised
C10_Witness ==
    /\ dp_pc = "done" /\ WellFormed(dp_message)
    /\ Len(invoked) >= 2
    /\ invoked[1] # invoked[2]
    /\ handler_errors = Len(invoked)

(***************************************************************************)
(* Claims about malformed messages.                                        *)
(***************************************************************************)
\* data that is not JSON, or JSON that is not an object
Malformed(m) == ~m.valid \/ ~m.object

InConnect(p) == cn_pc[p] \in {"connect_new", "connect_ping", "connect_sleep"}

Backoff == <<5, 10, 20, 30, 30>>

\* C12: one call of _connect makes at most MAX_RECONNECT_ATTEMPTS (5)
\* attempts, sleeps 5, 10, 20, 30, 30 seconds after the failed attempts
\* (never more than 30), and after the fifth failure it returns False to
\* its caller instead of trying again.
C12_BoundedBackoff ==
    /\ [](\A p \in Procs :
            /\ Len(waits[p]) <= MAX_RECONNECT_ATTEMPTS
            /\ \A k \in 1..Len(waits[p]) :
                  waits[p][k] = Backoff[k] /\ waits[p][k] <= 30
            /\ InConnect(p) =>
                  /\ attempt[p] = IF cn_pc[p] = "connect_sleep"
                                  THEN Len(waits[p]) - 1 ELSE Len(waits[p])
                  /\ attempt[p] < MAX_RECONNECT_ATTEMPTS)
    /\ [][\A p \in Procs :
            (InConnect(p) /\ Len(waits[p]) = MAX_RECONNECT_ATTEMPTS
               /\ cn_pc'[p] # cn_pc[p])
            => (/\ ~InConnect(p)'
                /\ cn_pc'[p] = Head(cn_stack[p])
                /\ cn_ret'[p] = FALSE)]_vars

\* a _connect of the publisher failed five times and returned False
C12_Witness ==
    /\ cn_pc["publisher"] = "pe_after_connect"
    /\ waits["publisher"] = Backoff
    /\ cn_ret["publisher"] = FALSE

\* C13: one publish_event call invokes _connect at most once before it
\* returns, whatever the state of the connection.
C13_AtMostOneReconnect == pe_connects <= 1

\* C14: the first publish_event made after the broker was restored, on a
\* channel that has a subscriber, returns True; the caller does nothing but
\* call publish_event.
C14_PublishAfterRestore ==
    (/\ cn_pc["publisher"] = "idle"
     /\ pe_result # "none"
     /\ pe_first
     /\ pe_subscribed)
    => pe_result = "True"

\* such a publish_event returned True after it reconnected by itself
C14_Witness ==
    /\ cn_pc["publisher"] = "idle"
    /\ pe_first /\ pe_subscribed
    /\ pe_result = "True"
    /\ pe_connects = 1

\* some caller is between replacing self.client and replacing self.pubsub
Replacing(p) == cn_pc[p] \in {"connect_ping", "connect_sleep"}

\* a caller is about to publish or poll on the shared objects
Using(p) == cn_pc[p] \in {"pe_publish", "sl_poll", "sl_subscribe"}

\* C17: access to the connection is serialized: nobody publishes or polls
\* while another caller is replacing client and pubsub, and client and
\* pubsub always belong to the same connection.
C17_ConnectionSerialized ==
    /\ \A p, q \in Procs : (p # q /\ Replacing(p)) => ~Using(q)
    /\ (pubsub # "none" /\ \A p \in Procs : ~InConnect(p)) => same_conn

(***************************************************************************)
(* Claims about the gateway.                                               *)
(***************************************************************************)
\* C15: EventService.publish_event answers published=False whenever the
\* broker is not connected or the publish fails, and published=True only
\* when the envelope reached the broker; so the endpoint answers 503 and
\* not "queued" whenever nothing was published.
C15_PublishedIffHanded ==
    gw_call.api = "register_user" =>
        /\ gw_call.published => (gw_handed > 0 /\ RedisService_is_connected)
        /\ gw_handed = 0 => gw_call.http = 503

\* C16: once a response for correlation id C is stored, a later response
\* with the same C does not change the entry that get_event_status reads.
C16_FirstResponseKept ==
    [][\A c \in CorrelationIds :
          event_responses[c].stored =>
              event_responses'[c] = event_responses[c]]_vars

\* C19: the health check says redis 'connected' exactly when the
\* connectivity check succeeds, and 'disconnected' when the broker is
\* unreachable or no client exists.
C19_HealthReflectsConnectivity ==
    gw_health.redis # "none" =>
        (gw_health.redis = "connected" <=> gw_health.reachable)

(***************************************************************************)
(* Claims about the worker pool.                                           *)
(***************************************************************************)
\* C18: a synchronous handler runs on the worker pool and does not block
\* the dispatch loop: while it is still executing, the listener can take
\* the next message from the channel and begin dispatching it.
C18_ListenerNotBlockedBySyncHandler ==
    (dp_pc = "running_executor" /\ dp_count < MaxDispatch)
        => ENABLED DP_Receive

(***************************************************************************)
(* Claims about the candidate interval.                                    *)
(***************************************************************************)
\* C20: every candidate interval that create_event compares with existing
\* events has start_time < end_time; a request whose end_time is not after
\* its start_time reaches neither the conflict check nor the publication.
C20_CandidateStartBeforeEnd ==
    /\ CE_LookedUp => CandStart < CandEnd
    /\ \A i \in 1..Len(publish_calls) :
          Instant(publish_calls[i].payload.start_time)
            < Instant(publish_calls[i].payload.end_time)

C24_PolledHandleIsSubscribed ==
    cn_pc["listener"] = "sl_poll" => pubsub # "new"

\* the events_listener tasks that run
LiveTasks == {i \in TaskIds : tasks[i] = "running"}

\* redis_svc.pubsub has users_events among its channels
SubscribedHandle == pubsub \in {"subscribed", "stale"}

\* C30: after any start-events and stop-events calls,
\* events_listener_running is true exactly when one live listener task
\* subscribed to users_events exists; no second listener is started.
C30_FlagMatchesListener ==
    us_shutdown = "no" =>
        /\ events_listener_running <=>
              (Cardinality(LiveTasks) = 1 /\ SubscribedHandle)
        /\ Cardinality(LiveTasks) <= 1

(***************************************************************************)
(* Claims about the life of stored responses.                              *)
(***************************************************************************)
\* C22: every response stored under a correlation id is eventually
\* removed, when it is consumed or once it is past its deadline, so that
\* the store stays bounded.
C22_StoredResponseEventuallyRemoved ==
    \A c \in CorrelationIds :
        event_responses[c].stored ~> ~event_responses[c].stored

(***************************************************************************)
(* Claims about the user event handlers.                                   *)
(***************************************************************************)
\* C23: for every request event a handler of UserEventHandler handles,
\* exactly one response is published on users_events_response on every
\* path, and a response with success=True is never followed by a failure
\* response for the same request.
C23_ExactlyOneResponse ==
    /\ (uh_pc = "done" /\ uh_handler # "none") => Len(uh_responses) = 1
    /\ \A i, k \in 1..Len(uh_responses) :
          (i < k /\ uh_responses[i].success) => uh_responses[k].success

\* C27: every event type the gateway publishes on users_events has a
\* handler registered under the same type string, so that the request is
\* dispatched to a handler.
C27_GatewayTypesHaveHandlers ==
    (uh_pc # "idle" /\ uh_event.type \in GatewayUserEventTypes)
        => uh_handler # "none"

(***************************************************************************)
(* Claims about create_event: concurrent requests, failed lookups.         *)
(***************************************************************************)
\* the intervals of the two requests overlap
RequestsOverlap ==
    /\ Instant(AsUtc(cc_data[1].start_time)) < Instant(AsUtc(cc_data[2].end_time))
    /\ Instant(AsUtc(cc_data[2].start_time)) < Instant(AsUtc(cc_data[1].end_time))

\* both requests were looked up before either published, and both lookups
\* answered 200
BothInFlight ==
    \A r \in Requests :
        /\ cc_pc[r] = "done"
        /\ cc_before[r] = 0
        /\ cc_response[r].kind = "response"
        /\ cc_response[r].status_code = 200

Published(r) == \E i \in 1..Len(cc_publish_calls) : cc_publish_calls[i].request = r

\* C25: of two concurrent create_event requests of the same user whose
\* intervals overlap each other and conflict with no stored event, at most
\* one publishes event_creation_requested and answers 'success'.
C25_AtMostOneConcurrentSuccess ==
    (/\ BothInFlight
     /\ RequestsOverlap
     /\ \A r \in Requests : ConflictLoop(cc_data[r], cc_store) = <<>>)
        => ~(\A r \in Requests : Published(r) /\ cc_result[r] = "success")

\* C26: create_event publishes event_creation_requested only after the
\* lookup of the user's events answered 200 and the conflict check over its
\* result was empty; after a non-200 answer nothing is published.
C26_PublishOnlyAfterSuccessfulLookup ==
    publish_calls # <<>> =>
        /\ events_response.kind = "response"
        /\ events_response.status_code = 200
        /\ ConflictLoop(event_data, events_response.events) = <<>>

(***************************************************************************)
(* Claims about create_group_event: results and the conflict pre-check.    *)
(***************************************************************************)
\* C28: create_group_event answers with a structured result (status
\* 'error', 'partial_success' or 'success') and never raises, whatever the
\* members lookup and the conflict pre-check do, a non-200 members answer
\* and an exception before the member list was obtained included.
C28_StructuredResultNeverRaises ==
    ge_pc = "done" => ge_result \in {"error", "partial_success", "success"}

\* C29: when the conflict pre-check of create_group_event has found an
\* overlapping event for at least one member, the endpoint answers 'error'
\* and issues no creation request for any member.
C29_ConflictStopsCreation ==
    conflicting_members # <<>> =>
        /\ attempts = <<>>
        /\ ge_pc = "done" => ge_result = "error"

====
